---- MODULE Spec2Model ----
(***************************************************************************)
(* A model of the jepsh rendering core: the dependency comparison of the   *)
(* hooks (deepEqual, areDepsEqual), the child reconciler                   *)
(* (reconcileChildren), the error-boundary lookup (captureError) and the   *)
(* scheduler / hook store driven by render, state setters, the microtask   *)
(* flush, the work loop and the effect timer.                              *)
(*                                                                         *)
(* Each part has its own specification over the shared variables:          *)
(*   SpecEq   deepEqual / areDepsEqual over bounded JavaScript values      *)
(*   SpecRec  reconcileChildren over successive renders of one parent      *)
(*   SpecErr  captureError over the boundaries registered by render passes *)
(*   Spec     the scheduler and the hook store of one rendered component   *)
(*   SpecMount  the same handlers when render replaces the root component  *)
(*   SpecWalk   the work loop's traversal when no component throws         *)
(*   SpecUse    the use hook over thenables that settle                    *)
(*   SpecMemo   useMemo / useCallback over successive renders              *)
(*   SpecKeys   the keys createHooks gives to the hook calls of a render   *)
(*   SpecBoundary  one ErrorBoundary over its renders, captures and resets *)
(*   SpecSet    the scheduler when the setter is called during a pass      *)
(*   SpecLoop   the slices of workLoop by priority and deadline readings   *)
(*   SpecLoopLive  SpecLoop with the host invoking workLoop again and again*)
(***************************************************************************)
EXTENDS Integers, Sequences, FiniteSets, TLC

VARIABLES
  \* --- deepEqual / areDepsEqual ---
  eqA,            \* first argument of the comparison
  eqB,            \* second argument of the comparison
  eqSame,         \* TRUE when both arguments are one and the same reference
  eqOut,          \* results of the comparison, or NULL before it ran
  \* --- reconcileChildren ---
  oldChildren,    \* child chain of wipFiber.alternate (identity = position)
  elements,       \* the element list handed to the last reconcileChildren
  newFibers,      \* fibers created by the last reconcileChildren, in creation order
  child,          \* wipFiber.child: index into newFibers, 0 when unset
  deletions,      \* globalState.deletions: indices into oldChildren; under Spec, the fibers
  recPc,          \* "idle" (no pass in flight) or "reconciled"
  \* --- captureError ---
  errTree,             \* parent of each fiber of a pass, in pre-order (0 = none)
  errBoundaries,       \* the fibers whose type is ErrorBoundary
  errPass,             \* the render pass in flight
  errCursor,           \* the next fiber the pass processes
  errorBoundaryStack,  \* globalState.errorBoundaryStack
  errTimers,           \* boundaries with a pending setTimeout of captureError
  errShown,            \* boundaries whose setHasError(true) has been called
  errOnError,          \* boundaries whose onError has been invoked, in order
  errOut,              \* the last captureError: its fiber, the stack it saw, its outcome
  errDeleted,          \* fibers tagged DELETION that a commit has processed
  \* --- scheduler and hook store ---
  appKind,             \* which hooks the component App calls
  currentRoot,         \* globalState.currentRoot
  wipRoot,             \* globalState.wipRoot
  nextUnitOfWork,      \* globalState.nextUnitOfWork: "root", "app" or "null"
  wipFiber,            \* globalState.wipFiber
  updateQueue,         \* the updates enqueued while batching
  isBatchingUpdates,   \* the batching flag
  batchingTimeout,     \* TRUE while the flush microtask is scheduled
  hookMaps,            \* the hooks objects of the App fibers, by creation order
  effectQueue,         \* globalState.effectQueue
  flushTimers,         \* pending setTimeout(flushEffects, 0)
  transitions,         \* the startTransition closures made by useTransition
  transitionTimers,    \* pending timers of startTransition, oldest first
  closures,            \* cleanup closures returned by effect callbacks so far
  renders,             \* executions of App so far
  issued,              \* per hooks object: setter calls since App last drained them
  events,              \* calls made by the application so far
  lastRender,          \* what the last execution of App read and stored
  lastFlush,           \* what the last flush of the batch drained and built
  lastHookCall,        \* the last hook call made while no component was rendering
  idleCallbacks,       \* pending requestIdleCallback(workLoop) registrations
  lastCommit,          \* what the last commitRoot committed and tore down
  lastEffects,         \* the effects the last flushEffects ran before their pass committed
  owed,                \* per hooks object: the cleanup its effect last returned, until invoked
  roots,               \* work-in-progress roots constructed so far
  spent,               \* cleanup closures invoked so far
  \* --- use(key, thenable) at one call site ---
  useHook,             \* the record stored at the key, NULL when there is none
  settled,             \* the state of each thenable: "pending", "fulfilled", "rejected"
  subscribed,          \* thenables with a then-callback of the hook not yet run
  useOut,              \* the last call: what was passed, what it found, its outcome
  useCalls,            \* calls of use so far
  \* --- useMemo(key, factory, deps) at one call site ---
  memoHook,            \* the record stored at the key, NULL when there is none
  memoOut,             \* the last call: what it found, whether the factory ran, its result
  memoCalls,           \* calls of useMemo so far
  factoryCalls,        \* invocations of the factory so far
  \* --- createHooks: generated keys ---
  componentHookCounters,  \* globalState.componentHookCounters: fiber -> counter, -1 when absent
  keyFiber,               \* globalState.wipFiber: the fiber last handed to a render, 0 if none
  keyRendering,           \* TRUE while the body of the component of keyFiber runs
  keyCalls,               \* the hooks called by the render of keyFiber so far
  keyKeys,                \* the keys generated for them
  keyPrev,                \* calls and keys of the previous render of the component
  \* --- one ErrorBoundary over its renders ---
  ebHooks,             \* its three useState records: hasError, error, errorInfo
  ebReset,             \* the stored record of its "error-boundary-reset" effect, NULL before the mount
  ebEffectQueue,       \* its effects in globalState.effectQueue
  ebTimers,            \* pending timers of captureError for this boundary
  ebRender,            \* its last render: what it read, what it returned
  ebRenders,           \* its renders so far
  ebMachine,           \* the state the boundary is to be in: "no-error" or "has-error"
  ebPendingReset,      \* TRUE from a change of children in has-error to the next flush
  \* --- workLoop over the units of a pass ---
  loopRoot,            \* the root in progress: its priority, its units left; NULL when none
  loopScheduled,       \* roots constructed so far; the newest is the one in progress
  loopCurrent,         \* the number of the committed root, 0 before the first commit
  loopOut              \* the last invocation of workLoop: what it found, read and did

eqVars  == <<eqA, eqB, eqSame, eqOut>>
recVars == <<oldChildren, elements, newFibers, child, deletions, recPc>>
errVars == <<errTree, errBoundaries, errPass, errCursor, errorBoundaryStack,
             errTimers, errShown, errOnError, errOut, errDeleted>>
sysVars == <<appKind, currentRoot, wipRoot, nextUnitOfWork, wipFiber, updateQueue,
             isBatchingUpdates, batchingTimeout, hookMaps, effectQueue, flushTimers,
             transitions, transitionTimers, closures, renders, issued, events,
             lastRender, lastFlush, lastHookCall, idleCallbacks, lastCommit, lastEffects, owed,
             roots, spent>>
useVars  == <<useHook, settled, subscribed, useOut, useCalls>>
memoVars == <<memoHook, memoOut, memoCalls, factoryCalls>>
keyVars  == <<componentHookCounters, keyFiber, keyRendering, keyCalls, keyKeys, keyPrev>>
ebVars   == <<ebHooks, ebReset, ebEffectQueue, ebTimers, ebRender, ebRenders, ebMachine,
              ebPendingReset>>
loopVars == <<loopRoot, loopScheduled, loopCurrent, loopOut>>
hookVars == <<useVars, memoVars, keyVars, ebVars, loopVars>>
vars    == <<eqVars, recVars, errVars, sysVars, hookVars>>

NULL == [null |-> TRUE]

\* Bounds of the model.
MaxArr   == 2    \* longest array / dependency list compared
MaxElems == 2    \* longest element list reconciled
MaxFibers == 3   \* fibers of the tree the error boundaries live in
MaxPasses == 2   \* render passes over that tree
MaxEvents == 3   \* calls the application makes (render, setters, startTransition, ref writes)
MaxCalls == 1    \* setter calls inside one transition callback
MaxMounts == 2   \* calls of render when render may replace the root component

(***************************************************************************)
(* JavaScript values: primitives, null, undefined, arrays, plain objects.  *)
(* Every value is a record [t, n, ks, es]: t the kind, n the number of a   *)
(* primitive, ks the own keys of an object in insertion order, es the      *)
(* elements of an array or the values of an object's keys.                 *)
(***************************************************************************)
Num(i)      == [t |-> "num", n |-> i, ks |-> <<>>, es |-> <<>>]
Null        == [t |-> "null", n |-> 0, ks |-> <<>>, es |-> <<>>]
Undefined   == [t |-> "undefined", n |-> 0, ks |-> <<>>, es |-> <<>>]
Arr(es)     == [t |-> "arr", n |-> 0, ks |-> <<>>, es |-> es]
Obj(ks, es) == [t |-> "obj", n |-> 0, ks |-> ks, es |-> es]

Prims == {Num(1), Num(2), Null, Undefined}

SeqsUpTo(S, n) == UNION {[1..k -> S] : k \in 0..n}

KeyLists == {<<>>, <<"x">>, <<"y">>, <<"0">>, <<"x", "y">>, <<"y", "x">>}

Flat == Prims \cup {Arr(es) : es \in SeqsUpTo(Prims, MaxArr)}
              \cup UNION {{Obj(ks, es) : es \in [1..Len(ks) -> Prims]} : ks \in KeyLists}

\* The values compared: flat values, and one-element arrays of flat values.
Values == Flat \cup {Arr(<<v>>) : v \in Flat}

\* The dependency lists compared: null (no list) or an array.
DepLists == {Null} \cup {v \in Values : v.t = "arr"}

IndexName(i) == <<"0", "1", "2", "3", "4">>[i + 1]

\* Object.keys(v): the indices of an array, the own keys of an object.
Keys(v) == IF v.t = "arr" THEN [i \in 1..Len(v.es) |-> IndexName(i - 1)] ELSE v.ks

\* v[key]: the property's value, undefined when v has no such own property.
Get(v, key) ==
  LET ks == Keys(v)
      hit == {i \in 1..Len(ks) : ks[i] = key}
  IN  IF hit = {} THEN Undefined ELSE v.es[CHOOSE i \in hit : TRUE]

IsObject(v) == v.t \in {"arr", "obj"}

\* a === b: primitives by value, arrays and objects by reference. Nested
\* members of two distinct references are taken as distinct references: a
\* shared member compares equal either way.
StrictEq(a, b, same) == IF IsObject(a) \/ IsObject(b) THEN same ELSE a = b

\* a == null
IsNullish(v) == v.t \in {"null", "undefined"}

RECURSIVE deepEqualRef(_, _, _)
deepEqualRef(a, b, same) ==
  IF StrictEq(a, b, same) THEN TRUE
  ELSE IF IsNullish(a) \/ IsNullish(b) THEN FALSE
  ELSE IF a.t = "arr" /\ b.t = "arr"
    THEN IF Len(a.es) # Len(b.es) THEN FALSE
         ELSE \A i \in 1..Len(a.es) : deepEqualRef(a.es[i], b.es[i], FALSE)
  ELSE IF IsObject(a) /\ IsObject(b)
    THEN LET keysA == Keys(a)
             keysB == Keys(b)
         IN  IF Len(keysA) # Len(keysB) THEN FALSE
             ELSE \A i \in 1..Len(keysA) :
                    deepEqualRef(Get(a, keysA[i]), Get(b, keysA[i]), FALSE)
  ELSE FALSE

deepEqual(a, b) == deepEqualRef(a, b, FALSE)

\* !deps: a dependency list is falsy only when it is null or undefined.
NoDeps(d) == IsNullish(d)

\* The comparison by reference: two lists are equal only when both are absent
\* (every render passes a new array).
areDepsEqualByReference(deps1, deps2) == NoDeps(deps1) /\ NoDeps(deps2)

areDepsEqual(deps1, deps2) ==
  IF NoDeps(deps1) /\ NoDeps(deps2) THEN TRUE
  ELSE IF NoDeps(deps1) \/ NoDeps(deps2) THEN FALSE
  ELSE IF Len(deps1.es) # Len(deps2.es) THEN FALSE
  ELSE \A i \in 1..Len(deps1.es) : deepEqual(deps1.es[i], deps2.es[i])

EqIdle == eqA = Null /\ eqB = Null /\ eqSame = FALSE /\ eqOut = NULL

EqInit ==
  /\ eqA \in Values
  /\ eqB \in Values
  /\ eqSame \in {s \in BOOLEAN : s => (eqA = eqB /\ IsObject(eqA))}
  /\ eqOut = NULL

\* One comparison of the two values in both orders, and of each with itself.
Compare ==
  /\ eqOut = NULL
  /\ eqOut' = [ab   |-> deepEqualRef(eqA, eqB, eqSame),
               ba   |-> deepEqualRef(eqB, eqA, eqSame),
               aa   |-> deepEqualRef(eqA, eqA, TRUE),
               deps |-> IF eqA \in DepLists /\ eqB \in DepLists
                          THEN areDepsEqual(eqA, eqB) ELSE FALSE]
  /\ UNCHANGED <<eqA, eqB, eqSame, recVars, errVars, sysVars, hookVars>>

(***************************************************************************)
(* reconcileChildren                                                       *)
(***************************************************************************)
NoKey == "null"                       \* element.key == null
ExplicitKeys == {"a", "b"}
Types == {"div", "span"}

\* The position index used as a key (a number, distinct from every string key).
IndexKey(i) == <<"#0", "#1", "#2", "#3", "#4">>[i + 1]

\* Entries of an element list: elements, and the falsy entries (null,
\* undefined, false), which the loop skips alike.
Element(type, key) == [type |-> type, key |-> key]
FalsyEntry == Element("FALSY", NoKey)
Elements == {Element(t, k) : t \in Types, k \in ExplicitKeys \cup {NoKey}}
Entries  == Elements \cup {FalsyEntry}

\* !element
IsFalsy(e) == e = FalsyEntry

\* element.key != null ? element.key : i
ElementKey(element, i) == IF element.key # NoKey THEN element.key ELSE IndexKey(i)

\* A Map in insertion order: a sequence of <<key, value>> with distinct keys.
MapHas(m, k) == \E j \in 1..Len(m) : m[j][1] = k
MapGet(m, k) == m[CHOOSE j \in 1..Len(m) : m[j][1] = k][2]
MapSet(m, k, v) ==
  IF MapHas(m, k) THEN [j \in 1..Len(m) |-> IF m[j][1] = k THEN <<k, v>> ELSE m[j]]
  ELSE Append(m, <<k, v>>)
MapDelete(m, k) == SelectSeq(m, LAMBDA e : e[1] # k)

\* The old child chain collected under the position of each child instead
\* of its key.
OldChildrenMapByIndex(old, index, m) == [j \in 1..Len(old) |-> <<IndexKey(j - 1), j>>]

\* Lines 16-25: the old child chain collected into oldChildrenMap.
RECURSIVE OldChildrenMap(_, _, _)
OldChildrenMap(old, index, m) ==
  IF index > Len(old) THEN m
  ELSE OldChildrenMap(old, index + 1, MapSet(m, old[index].key, index))

\* Lines 30-83: the body of elements.forEach for the entry at position i
\* (0-based), on the accumulated state r.
ReconcileElement(r, element, i) ==
  IF IsFalsy(element) THEN r
  ELSE
    LET key      == ElementKey(element, i)
        hasOld   == MapHas(r.map, key)
        old      == IF hasOld THEN MapGet(r.map, key) ELSE 0
        sameType == hasOld /\ element.type = r.old[old].type
        newFiber == IF sameType
                      THEN [type |-> r.old[old].type, key |-> key, effectTag |-> "UPDATE",
                            alternate |-> old, sibling |-> 0, index |-> i]
                      ELSE [type |-> element.type, key |-> key, effectTag |-> "PLACEMENT",
                            alternate |-> 0, sibling |-> 0, index |-> i]
        tagIt    == hasOld /\ ~sameType /\ r.old[old].effectTag # "DELETION"
        n        == Len(r.new) + 1
        linked   == IF i # 0 /\ r.prevSibling # 0
                      THEN [r.new EXCEPT ![r.prevSibling].sibling = n]
                      ELSE r.new
    IN  [map         |-> IF hasOld THEN MapDelete(r.map, key) ELSE r.map,
         old         |-> IF tagIt THEN [r.old EXCEPT ![old].effectTag = "DELETION"] ELSE r.old,
         deletions   |-> IF tagIt THEN Append(r.deletions, old) ELSE r.deletions,
         new         |-> Append(linked, newFiber),
         child       |-> IF i = 0 THEN n ELSE r.child,
         prevSibling |-> n]

RECURSIVE ReconcileElements(_, _, _)
ReconcileElements(r, elems, i) ==
  IF i >= Len(elems) THEN r
  ELSE ReconcileElements(ReconcileElement(r, elems[i + 1], i), elems, i + 1)

\* Lines 85-88: every fiber left in oldChildrenMap is tagged and pushed.
RECURSIVE DeleteRemaining(_, _)
DeleteRemaining(r, j) ==
  IF j > Len(r.map) THEN r
  ELSE LET idx == r.map[j][2]
       IN  DeleteRemaining([r EXCEPT !.old[idx].effectTag = "DELETION",
                                     !.deletions = Append(r.deletions, idx)], j + 1)

\* reconcileChildren(wipFiber, elements) for a fresh wipFiber whose
\* alternate has the child chain old, with the global deletions list dels.
reconcileChildren(old, elems, dels) ==
  LET start == [map |-> OldChildrenMap(old, 1, <<>>), old |-> old, deletions |-> dels,
                new |-> <<>>, child |-> 0, prevSibling |-> 0]
  IN  DeleteRemaining(ReconcileElements(start, elems, 0), 1)

\* The fibers reachable from wipFiber.child by sibling links.
RECURSIVE Chain(_, _)
Chain(new, f) == IF f = 0 THEN <<>> ELSE <<f>> \o Chain(new, new[f].sibling)

RecIdle ==
  /\ oldChildren = <<>> /\ elements = <<>> /\ newFibers = <<>>
  /\ child = 0 /\ deletions = <<>> /\ recPc = "idle"

RecInit == RecIdle

\* A render pass reaches the parent: its children are reconciled.
Reconcile(elems) ==
  /\ recPc = "idle"
  /\ \E r \in {reconcileChildren(oldChildren, elems, deletions)} :
         /\ oldChildren' = r.old
         /\ newFibers' = r.new
         /\ child' = r.child
         /\ deletions' = r.deletions
  /\ elements' = elems
  /\ recPc' = "reconciled"
  /\ UNCHANGED <<eqVars, errVars, sysVars, hookVars>>

\* commitRoot: the deletions are torn down and the work-in-progress tree
\* becomes the committed one; its child chain is the next pass's old chain.
CommitRec ==
  /\ recPc = "reconciled"
  /\ oldChildren' = [j \in 1..Len(Chain(newFibers, child)) |->
                       LET f == newFibers[Chain(newFibers, child)[j]]
                       IN  [key |-> f.key, type |-> f.type, effectTag |-> f.effectTag]]
  /\ newFibers' = <<>>
  /\ child' = 0
  /\ deletions' = <<>>
  /\ elements' = <<>>
  /\ recPc' = "idle"
  /\ UNCHANGED <<eqVars, errVars, sysVars, hookVars>>

\* scheduleUpdate / render while the pass is not committed: a new
\* work-in-progress root replaces it and the deletions list is reset; the
\* committed fibers keep the tags the abandoned pass gave them.
SupersedeRec ==
  /\ recPc = "reconciled"
  /\ newFibers' = <<>>
  /\ child' = 0
  /\ deletions' = <<>>
  /\ elements' = <<>>
  /\ recPc' = "idle"
  /\ UNCHANGED <<oldChildren, eqVars, errVars, sysVars, hookVars>>

(***************************************************************************)
(* captureError over the fibers of successive render passes. A fiber is    *)
(* <<pass, n>>: every pass builds new fibers, whose parent links stay      *)
(* within the pass. Fibers are numbered in the order the work loop visits  *)
(* them (depth-first pre-order).                                           *)
(***************************************************************************)
\* The ancestors of node n in the parent function t (n itself excluded).
RECURSIVE NodeAncestors(_, _)
NodeAncestors(t, n) == IF t[n] = 0 THEN {} ELSE {t[n]} \cup NodeAncestors(t, t[n])

\* Parent functions of the trees of k fibers numbered in pre-order: the
\* parent of a fiber is the fiber before it or one of that fiber's ancestors.
RECURSIVE PreorderTrees(_)
PreorderTrees(k) ==
  IF k = 1 THEN {<<0>>}
  ELSE UNION {{Append(t, p) : p \in {k - 1} \cup NodeAncestors(t, k - 1)}
              : t \in PreorderTrees(k - 1)}

FiberParent(f) == IF errTree[f[2]] = 0 THEN NULL ELSE <<f[1], errTree[f[2]]>>

\* isAncestor(ancestor, descendant): walks descendant.parent upwards.
RECURSIVE isAncestorFrom(_, _)
isAncestorFrom(ancestor, current) ==
  IF current = NULL THEN FALSE
  ELSE IF current = ancestor THEN TRUE
  ELSE isAncestorFrom(ancestor, FiberParent(current))

isAncestor(ancestor, descendant) == isAncestorFrom(ancestor, FiberParent(descendant))

Candidate(stack, i, fiber) == stack[i].fiber = fiber \/ isAncestor(stack[i].fiber, fiber)

\* The loop of captureError run from the outermost record instead.
captureErrorFromOutermost(stack, fiber) ==
  LET hits == {i \in 1..Len(stack) : Candidate(stack, i, fiber)}
  IN  IF hits = {} THEN 0 ELSE CHOOSE i \in hits : \A j \in hits : i <= j

\* The loop of captureError: the index of the last record of the stack whose
\* fiber is the failing fiber or an ancestor of it, 0 when there is none.
captureErrorSelect(stack, fiber) ==
  LET hits == {i \in 1..Len(stack) : Candidate(stack, i, fiber)}
  IN  IF hits = {} THEN 0 ELSE CHOOSE i \in hits : \A j \in hits : i >= j

ErrIdle ==
  /\ errTree = <<0>> /\ errBoundaries = {} /\ errPass = 1 /\ errCursor = 1
  /\ errorBoundaryStack = <<>> /\ errTimers = <<>> /\ errShown = {}
  /\ errOnError = <<>> /\ errOut = NULL /\ errDeleted = {}

ErrInit ==
  /\ errTree \in UNION {PreorderTrees(k) : k \in 1..MaxFibers}
  /\ errBoundaries \in SUBSET (1..Len(errTree))
  /\ errPass = 1
  /\ errCursor = 1
  /\ errorBoundaryStack = <<>>
  /\ errTimers = <<>>
  /\ errShown = {}
  /\ errOnError = <<>>
  /\ errOut = NULL
  /\ errDeleted = {}

\* fiber.sibling: the next child of the same parent, 0 when there is none.
Sibling(n) ==
  LET later == {m \in (n + 1)..Len(errTree) : errTree[m] = errTree[n]}
  IN  IF later = {} THEN 0 ELSE CHOOSE m \in later : \A k \in later : m <= k

\* The walk that looks at the fiber's own sibling only.
SiblingOnly(nextFiber) == IF nextFiber = 0 THEN 0 ELSE Sibling(nextFiber)

\* The walk of performUnitOfWork from nextFiber: its sibling, else the
\* first sibling found along the parent links, else 0 (no unit is left).
RECURSIVE SiblingOrUncle(_)
SiblingOrUncle(nextFiber) ==
  IF nextFiber = 0 THEN 0
  ELSE IF Sibling(nextFiber) # 0 THEN Sibling(nextFiber)
  ELSE SiblingOrUncle(errTree[nextFiber])

\* fiber.child after reconcileChildren(fiber, children): 0 when the fiber was
\* not reconciled or was reconciled with an empty list.
FiberChild(n, reconciledWithChildren) ==
  IF reconciledWithChildren /\ n < Len(errTree) /\ errTree[n + 1] = n THEN n + 1 ELSE 0

\* The records pushed so far, and the one an ErrorBoundary pushes for fiber
\* unless a record for that fiber is on the stack.
Register(stack, fiber) ==
  IF /\ fiber[2] \in errBoundaries
     /\ ~\E i \in 1..Len(stack) : stack[i].fiber = fiber
    THEN Append(stack, [fiber |-> fiber])
    ELSE stack

\* The onError prop of the selected boundary: none, a callback that returns,
\* a callback that throws.
OnErrorKinds == {"absent", "returns", "throws"}

\* captureError with the setters called before it returns instead.
CapturedSynchronously(stack, fiber, thrown, reconciled, next, onError) ==
  LET sel == captureErrorSelect(stack, fiber)
  IN  /\ errOnError' = IF sel # 0 /\ onError # "absent"
                         THEN Append(errOnError, stack[sel].fiber) ELSE errOnError
      /\ errTimers' = errTimers
      /\ errShown' = IF sel # 0 THEN errShown \cup {stack[sel].fiber} ELSE errShown
      /\ errOut' = [fiber |-> fiber, result |-> sel # 0,
                    boundary |-> IF sel # 0 THEN stack[sel].fiber ELSE NULL,
                    stack |-> stack, deleted |-> errDeleted,
                    thrown |-> thrown, onError |-> onError,
                    reconciled |-> IF sel # 0 THEN reconciled ELSE FALSE,
                    next |-> next]

\* What a call captureError(error, fiber) on the stack leaves behind: onError
\* is invoked inside a try/catch when the selected record has one, the timer
\* that will call the setters is armed, and no setter is called.
Captured(stack, fiber, thrown, reconciled, next, onError) ==
  LET sel == captureErrorSelect(stack, fiber)
  IN  /\ errOnError' = IF sel # 0 /\ onError # "absent"
                         THEN Append(errOnError, stack[sel].fiber) ELSE errOnError
      /\ errTimers' = IF sel # 0 THEN Append(errTimers, stack[sel].fiber) ELSE errTimers
      /\ errShown' = errShown
      /\ errOut' = [fiber |-> fiber, result |-> sel # 0,
                    boundary |-> IF sel # 0 THEN stack[sel].fiber ELSE NULL,
                    stack |-> stack, deleted |-> errDeleted,
                    thrown |-> thrown, onError |-> onError,
                    reconciled |-> IF sel # 0 THEN reconciled ELSE FALSE,
                    next |-> next]

\* The values a component throws: an Error, or null / undefined, of which
\* enhanceError cannot read the message.
Thrown == {"none", "error", "nullish"}

\* performUnitOfWork(fiber) for the next fiber, a function component. An
\* ErrorBoundary registers itself. When the component throws an Error,
\* updateFunctionComponent asks captureError and reconciles the fiber with no
\* children if a boundary took it, else rethrows to performUnitOfWork, which
\* asks again and walks to the sibling. When it throws null, enhanceError
\* throws in updateFunctionComponent's handler and only performUnitOfWork
\* asks captureError: the fiber is not reconciled. The components that throw
\* are the application's; the body of ErrorBoundary does not.
RenderFiber(thrown) ==
  /\ errCursor <= Len(errTree)
  /\ thrown # "none" => errOut = NULL /\ errCursor \notin errBoundaries
  /\ LET fiber == <<errPass, errCursor>>
         stack == Register(errorBoundaryStack, fiber)
         taken == captureErrorSelect(stack, fiber) # 0
         first == FiberChild(errCursor, thrown = "none")
         walk  == IF thrown = "none" \/ taken
                    THEN IF first # 0 THEN first ELSE SiblingOrUncle(errCursor)
                    ELSE SiblingOrUncle(errCursor)
         next  == IF walk = 0 THEN Len(errTree) + 1 ELSE walk
     IN  /\ errorBoundaryStack' = stack
         /\ errCursor' = next
         /\ IF thrown = "none"
              THEN UNCHANGED <<errOnError, errTimers, errShown, errOut>>
              ELSE \E onError \in OnErrorKinds :
                     Captured(stack, fiber, thrown, thrown = "error", walk, onError)
  /\ UNCHANGED <<errTree, errBoundaries, errPass, errDeleted,
                 eqVars, recVars, sysVars, hookVars>>

\* A new work-in-progress root: the next pass builds new fibers.
StartPass ==
  /\ errPass < MaxPasses
  /\ errPass' = errPass + 1
  /\ errCursor' = 1
  /\ UNCHANGED <<errTree, errBoundaries, errorBoundaryStack, errTimers, errShown, errOnError,
                 errOut, errDeleted, eqVars, recVars, sysVars, hookVars>>

\* The fibers that exist: those of earlier passes, and those of this pass
\* whose parent has been processed.
ExistingFibers ==
  {<<p, n>> : p \in 1..(errPass - 1), n \in 1..Len(errTree)}
    \cup {<<errPass, n>> : n \in {m \in 1..Len(errTree) : m = 1 \/ errTree[m] < errCursor}}

\* captureError(error, fiber), for the one error of a behaviour: the call
\* leaves the stack as it is, so a later call selects as a first call does.
captureError(fiber) ==
  /\ errOut = NULL
  /\ fiber \in ExistingFibers
  /\ \E onError \in OnErrorKinds :
       Captured(errorBoundaryStack, fiber, "none", FALSE, 0, onError)
  /\ UNCHANGED <<errTree, errBoundaries, errPass, errCursor, errorBoundaryStack,
                 errDeleted, eqVars, recVars, sysVars, hookVars>>

\* The timer armed by captureError fires: the boundary's setters are called.
CaptureTimer ==
  /\ errTimers # <<>>
  /\ errShown' = errShown \cup {Head(errTimers)}
  /\ errTimers' = Tail(errTimers)
  /\ UNCHANGED <<errTree, errBoundaries, errPass, errCursor, errorBoundaryStack, errOnError,
                 errOut, errDeleted, eqVars, recVars, sysVars, hookVars>>

\* The cleanup of the "error-boundary-cleanup" effect: it splices out the
\* first record whose fiber is globalState.wipFiber at the time it runs.
BoundaryCleanup(stack, wip) ==
  LET hits == {i \in 1..Len(stack) : stack[i].fiber = wip}
  IN  IF hits = {} THEN stack
      ELSE LET index == CHOOSE i \in hits : \A j \in hits : i <= j
           IN  SubSeq(stack, 1, index - 1) \o SubSeq(stack, index + 1, Len(stack))

\* commitDeletion(fiber, domParent) over a tree of function components:
\* nothing without a dom parent; with one, the cleanups of the fiber's hooks,
\* then the same for its first child.
RECURSIVE commitDeletionOfBoundary(_, _, _, _)
commitDeletionOfBoundary(stack, fiber, domParent, wip) ==
  IF fiber = NULL \/ domParent = NULL THEN stack
  ELSE LET cleaned == IF fiber[2] \in errBoundaries THEN BoundaryCleanup(stack, wip) ELSE stack
           first   == FiberChild(fiber[2], TRUE)
       IN  commitDeletionOfBoundary(cleaned, IF first = 0 THEN NULL ELSE <<fiber[1], first>>,
                                    domParent, wip)

\* The nodes below node n.
Descendants(n) == {m \in 1..Len(errTree) : n \in NodeAncestors(errTree, m)}

\* The committed tree is replaced: its root component is tagged DELETION by
\* the next pass, whose commit calls commitDeletion(fiber, null) for it.
Unmount ==
  /\ errCursor > Len(errTree)
  /\ errDeleted = {}
  /\ LET skipped == IF errOut # NULL /\ errOut.thrown # "none" /\ errOut.fiber[1] = errPass
                      THEN Descendants(errOut.fiber[2]) ELSE {}
     IN  errDeleted' = {<<errPass, n>> : n \in (1..Len(errTree)) \ skipped}
  /\ errorBoundaryStack' =
       commitDeletionOfBoundary(errorBoundaryStack, <<errPass, 1>>, NULL,
                                <<errPass, Len(errTree)>>)
  /\ UNCHANGED <<errTree, errBoundaries, errPass, errCursor, errTimers, errShown, errOnError,
                 errOut, eqVars, recVars, sysVars, hookVars>>

(***************************************************************************)
(* The scheduler and the hook store. One application is rendered into one  *)
(* container: the root fiber has one child, the function component App,    *)
(* which calls the hooks of its kind (appKind) and returns no children     *)
(* (under SpecMount: no children or one host element).                     *)
(*                                                                         *)
(* The operators below take and return the record G of the program's       *)
(* state, so that a handler is the composition of the calls it makes.      *)
(***************************************************************************)
IMMEDIATE == 1
NORMAL    == 2
LOW       == 3
IDLE      == 4

AppKinds == {"state", "reducer", "transition", "effect", "layout", "insertion", "ref"}

\* fiber.hooks of a PLACEMENT fiber: {} (no hook stored under any key).
EmptyHooks == [k |-> NULL, tp |-> NULL, t |-> NULL, e |-> NULL, l |-> NULL, i |-> NULL,
               r |-> NULL]

\* Object.keys(fiber.hooks), in the order App stores its hooks.
HookKeys == <<"tp", "t", "k", "e", "l", "i", "r">>

\* The actions handed to a setter or to dispatch: an updater v => v + value
\* (for a reducer: an "add" action), or a replacement value (a "set" action).
Inc      == [updater |-> TRUE, value |-> 1]
SetTo(c) == [updater |-> FALSE, value |-> c]
SetterActions == {Inc, SetTo(5)}

\* The actions the callback of a transition hands to the setter: updaters.
TransitionActions == {Inc}

\* What a cleanup closure does when the hook invokes it: it returns, throws
\* an Error, or throws null / undefined.
CleanupThrows == {"none", "error", "nullish"}

\* Some record of the plain effect holds a cleanup closure: only then can a
\* render invoke one, and what the closure does matter.
CleanupStored ==
  \E m \in 1..Len(hookMaps) : hookMaps[m]["e"] # NULL /\ hookMaps[m]["e"].cleanup # 0

\* What one execution of App passes to its hooks.
DepInputs == {Null, Arr(<<>>), Arr(<<Num(1)>>), Arr(<<Num(2)>>)}
RefValues == {0, 1, 2}
RenderInputs ==
  IF appKind \in {"effect", "layout", "insertion"}
    THEN {[deps |-> d, withCleanup |-> c, initial |-> 0, children |-> "empty", cleanupThrows |-> t] :
            d \in DepInputs, c \in BOOLEAN,
            t \in IF appKind = "effect" /\ CleanupStored THEN CleanupThrows ELSE {"none"}}
  ELSE IF appKind = "ref"
    THEN {[deps |-> Null, withCleanup |-> FALSE, initial |-> v, children |-> "empty",
           cleanupThrows |-> "none"] : v \in RefValues}
  ELSE {[deps |-> Null, withCleanup |-> FALSE, initial |-> 0, children |-> "empty",
         cleanupThrows |-> "none"]}

\* What the body of App returns: an empty list, one host element, or
\* undefined (a body without return statement).
Returns == {"empty", "element", "undefined"}

\* The inputs of a render when App may return one host element as its
\* child: an effect without a dependency list or with the list [1].
MountInputs ==
  {[in EXCEPT !.children = c] :
     in \in {i \in RenderInputs : i.deps \in {Null, Arr(<<Num(1)>>)}}, c \in Returns}

Sys ==
  [currentRoot |-> currentRoot, wipRoot |-> wipRoot, nextUnitOfWork |-> nextUnitOfWork,
   wipFiber |-> wipFiber, updateQueue |-> updateQueue,
   isBatchingUpdates |-> isBatchingUpdates, batchingTimeout |-> batchingTimeout,
   hookMaps |-> hookMaps, effectQueue |-> effectQueue, flushTimers |-> flushTimers,
   transitions |-> transitions, transitionTimers |-> transitionTimers,
   closures |-> closures, renders |-> renders, issued |-> issued, events |-> events,
   lastRender |-> lastRender, lastFlush |-> lastFlush, lastHookCall |-> lastHookCall,
   idleCallbacks |-> idleCallbacks, lastCommit |-> lastCommit, lastEffects |-> lastEffects,
   deletions |-> deletions, owed |-> owed, roots |-> roots,
   spent |-> spent]

\* The state after a handler is the record it returns.
SysNext(G) ==
  \E H \in {G} :
    /\ currentRoot' = H.currentRoot
    /\ wipRoot' = H.wipRoot
    /\ nextUnitOfWork' = H.nextUnitOfWork
    /\ wipFiber' = H.wipFiber
    /\ updateQueue' = H.updateQueue
    /\ isBatchingUpdates' = H.isBatchingUpdates
    /\ batchingTimeout' = H.batchingTimeout
    /\ hookMaps' = H.hookMaps
    /\ effectQueue' = H.effectQueue
    /\ flushTimers' = H.flushTimers
    /\ transitions' = H.transitions
    /\ transitionTimers' = H.transitionTimers
    /\ closures' = H.closures
    /\ renders' = H.renders
    /\ issued' = H.issued
    /\ events' = H.events
    /\ lastRender' = H.lastRender
    /\ lastFlush' = H.lastFlush
    /\ lastHookCall' = H.lastHookCall
    /\ idleCallbacks' = H.idleCallbacks
    /\ lastCommit' = H.lastCommit
    /\ lastEffects' = H.lastEffects
    /\ deletions' = H.deletions
    /\ owed' = H.owed
    /\ roots' = H.roots
    /\ spent' = H.spent
    /\ UNCHANGED <<appKind, eqVars, oldChildren, elements, newFibers, child, recPc, errVars,
                   hookVars>>

SysInit ==
  /\ appKind \in AppKinds
  /\ currentRoot = NULL /\ wipRoot = NULL /\ nextUnitOfWork = "null" /\ wipFiber = NULL
  /\ updateQueue = <<>> /\ isBatchingUpdates = FALSE /\ batchingTimeout = FALSE
  /\ hookMaps = <<>> /\ effectQueue = <<>> /\ flushTimers = 0
  /\ transitions = <<>> /\ transitionTimers = <<>>
  /\ closures = 0 /\ renders = 0 /\ issued = <<>> /\ events = 0
  /\ lastRender = NULL /\ lastFlush = NULL /\ lastHookCall = NULL
  /\ idleCallbacks = 1 /\ lastCommit = NULL /\ lastEffects = NULL /\ owed = <<>>
  /\ roots = 0 /\ spent = {}

SysIdle == SysInit /\ appKind = "state"

\* The function components the application renders at the root; both call
\* the hooks that appKind names.
AppTypes == {"App", "App2"}

\* A root fiber that takes the root in progress as its alternate.
NewRootOverWip(G, priority, element) ==
  [priority |-> priority, element |-> element, child |-> NULL, id |-> G.roots + 1,
   alternate |-> IF G.wipRoot # NULL /\ G.wipRoot.child # NULL
                   THEN [child |-> G.wipRoot.child]
                   ELSE IF G.currentRoot = NULL THEN NULL
                   ELSE [child |-> G.currentRoot.child]]

\* The root fiber built by render and by scheduleUpdate, a new object (id).
\* Its alternate is globalState.currentRoot, of which the pass reads the
\* child chain only.
NewRoot(G, priority, element) ==
  [priority |-> priority, element |-> element, child |-> NULL, id |-> G.roots + 1,
   alternate |-> IF G.currentRoot = NULL THEN NULL ELSE [child |-> G.currentRoot.child]]

\* scheduleUpdate(priority)
scheduleUpdate(G, priority) ==
  IF G.currentRoot = NULL THEN G
  ELSE [G EXCEPT !.wipRoot = NewRoot(G, priority, G.currentRoot.element),
                 !.roots = @ + 1,
                 !.nextUnitOfWork = "root",
                 !.deletions = <<>>,
                 !.lastFlush = IF @ = NULL THEN @ ELSE [@ EXCEPT !.built = @ + 1]]

\* An enqueue that schedules at once, whatever the batching flag.
enqueueUnbatched(G, priority) == scheduleUpdate(G, priority)

\* enqueueBatchedUpdate(priority)
enqueueBatchedUpdate(G, priority) ==
  IF G.isBatchingUpdates
    THEN [G EXCEPT !.updateQueue = Append(@, [type |-> "schedule", priority |-> priority])]
    ELSE scheduleUpdate(G, priority)

\* batchUpdates(() => enqueueBatchedUpdate(priority))
batchUpdates(G, priority) ==
  IF G.isBatchingUpdates THEN enqueueBatchedUpdate(G, priority)
  ELSE LET G1 == enqueueBatchedUpdate([G EXCEPT !.isBatchingUpdates = TRUE], priority)
       IN  [G1 EXCEPT !.batchingTimeout = TRUE]

\* updates.forEach(update => scheduleUpdate(update.priority))
RECURSIVE ScheduleEach(_, _)
ScheduleEach(G, updates) ==
  IF updates = <<>> THEN G
  ELSE ScheduleEach(IF Head(updates).type = "schedule"
                      THEN scheduleUpdate(G, Head(updates).priority) ELSE G,
                    Tail(updates))

\* flushBatchedUpdates()
flushBatchedUpdates(G) ==
  IF Len(G.updateQueue) = 0 THEN [G EXCEPT !.isBatchingUpdates = FALSE]
  ELSE [ScheduleEach([G EXCEPT !.updateQueue = <<>>], G.updateQueue)
          EXCEPT !.isBatchingUpdates = FALSE]

\* The setter of the hook stored under key in hooks object m: setState and
\* dispatch alike push the action and enqueue an update, at LOW priority
\* inside a transition callback.
setState(G, m, key, action, isTransition) ==
  LET G1 == [G EXCEPT !.hookMaps[m][key].queue = Append(@, action),
                      !.issued[m] = IF key = "k" THEN Append(@, action) ELSE @]
  IN  batchUpdates(G1, IF isTransition THEN LOW ELSE NORMAL)

\* The reducer App passes to useReducer: "add" adds, "set" replaces.
Reducer(state, action) == IF action.updater THEN state + action.value ELSE action.value

\* typeof action === "function" ? action(hook.state) : action
ApplyAction(state, action) == IF action.updater THEN state + action.value ELSE action.value

\* actions.forEach, run from the newest action to the oldest instead.
RECURSIVE FoldQueueNewestFirst(_, _, _)
FoldQueueNewestFirst(state, actions, reduce) ==
  IF actions = <<>> THEN state
  ELSE LET last == actions[Len(actions)]
       IN  FoldQueueNewestFirst(IF reduce THEN Reducer(state, last)
                                          ELSE ApplyAction(state, last),
                                SubSeq(actions, 1, Len(actions) - 1), reduce)

\* actions.forEach(action => hook.state = ...): oldest action first.
RECURSIVE FoldQueue(_, _, _)
FoldQueue(state, actions, reduce) ==
  IF actions = <<>> THEN state
  ELSE FoldQueue(IF reduce THEN Reducer(state, Head(actions))
                            ELSE ApplyAction(state, Head(actions)),
                 Tail(actions), reduce)

\* globalState.wipFiber.alternate?.hooks?.[key] || null
OldHook(G, fiber, key) ==
  IF fiber.alternateHooks = 0 THEN NULL ELSE G.hookMaps[fiber.alternateHooks][key]

\* The body shared by useState(key, initial) and useReducer(key, reducer,
\* initial): the stored hook (or a new one seeded from the alternate's) has
\* its queue drained into its state.
StateHook(G, fiber, key, initial, reduce) ==
  LET m       == fiber.hooks
      oldHook == OldHook(G, fiber, key)
      stored  == G.hookMaps[m][key]
      hook    == IF stored # NULL THEN stored
                 ELSE [state |-> IF oldHook # NULL THEN oldHook.state ELSE initial,
                       queue |-> IF oldHook # NULL THEN oldHook.queue ELSE <<>>]
      after   == [state |-> FoldQueue(hook.state, hook.queue, reduce), queue |-> <<>>]
  IN  [G EXCEPT !.hookMaps[m][key] = after,
                !.issued[m] = IF key = "k" THEN <<>> ELSE @,
                !.lastRender = [kind |-> "state", key |-> key, map |-> m, old |-> oldHook,
                                prev |-> hook.state, actions |-> hook.queue,
                                issued |-> G.issued[m], new |-> after,
                                returned |-> after.state]]

useState(G, fiber, key, initial) == StateHook(G, fiber, key, initial, FALSE)

useReducer(G, fiber, key, initial) == StateHook(G, fiber, key, initial, TRUE)

\* useTransition(key): the pending flag is a useState under `${key}-pending`;
\* every call makes a new startTransition closure with its own, empty,
\* pendingTransitions set.
useTransition(G, fiber) ==
  LET m  == fiber.hooks
      G1 == useState(G, fiber, "tp", FALSE)
      closure == Len(G.transitions) + 1
  IN  [G1 EXCEPT !.hookMaps[m]["t"] = [isPending |-> G1.hookMaps[m]["tp"].state,
                                       startTransition |-> closure],
                 !.transitions = Append(@, [map |-> m, pendingTransitions |-> 0])]

\* deps / oldHook.dependencies as a condition: an array is truthy.
HasDeps(d) == ~NoDeps(d)

\* The cleanup a callback returns: a new closure, or none (0).
Returned(G, withCleanup) == IF withCleanup THEN G.closures + 1 ELSE 0

\* useEffect(key, callback, deps)
useEffect(G, fiber, key, in) ==
  LET m       == fiber.hooks
      oldHook == OldHook(G, fiber, key)
      depsChanged ==
        IF oldHook # NULL /\ HasDeps(oldHook.dependencies) /\ HasDeps(in.deps)
          THEN ~areDepsEqual(in.deps, oldHook.dependencies)
        ELSE IF oldHook # NULL /\ ~HasDeps(in.deps) /\ ~HasDeps(oldHook.dependencies)
          THEN FALSE
        ELSE TRUE
      oldCleanup == IF oldHook = NULL THEN 0 ELSE oldHook.cleanup
      hook == [callback |-> in.withCleanup,
               dependencies |-> IF HasDeps(in.deps) THEN in.deps ELSE Null,
               cleanup |-> oldCleanup,
               hasRun |-> ~depsChanged,
               needsToRun |-> depsChanged,
               id |-> G.renders]
      invokes == depsChanged /\ oldCleanup # 0
      threw   == IF invokes THEN in.cleanupThrows ELSE "none"
      \* the handler reads error.message: a TypeError when null was thrown
      aborted == threw = "nullish"
  IN  [G EXCEPT !.hookMaps[m][key] = IF aborted THEN @ ELSE hook,
                !.owed[m] = IF invokes /\ @ = oldCleanup THEN 0 ELSE @,
                !.spent = IF invokes THEN @ \cup {oldCleanup} ELSE @,
                !.lastRender = [kind |-> "effect", key |-> key, map |-> m, old |-> oldHook,
                                deps |-> in.deps, new |-> hook,
                                invoked |-> IF invokes THEN <<oldCleanup>> ELSE <<>>,
                                again |-> invokes /\ oldCleanup \in G.spent,
                                owed |-> G.owed[m],
                                threw |-> threw,
                                offered |-> threw = "error",
                                aborted |-> aborted,
                                ran |-> FALSE, queued |-> FALSE]]

\* useLayoutEffect(key, callback, deps)
useLayoutEffect(G, fiber, key, in) ==
  LET m       == fiber.hooks
      oldHook == OldHook(G, fiber, key)
      depsChanged ==
        IF oldHook # NULL /\ HasDeps(oldHook.dependencies) /\ HasDeps(in.deps)
          THEN ~areDepsEqual(in.deps, oldHook.dependencies)
        ELSE IF ~(oldHook # NULL /\ HasDeps(oldHook.dependencies)) /\ ~HasDeps(in.deps)
          THEN FALSE
        ELSE TRUE
      oldCleanup == IF oldHook = NULL THEN 0 ELSE oldHook.cleanup
      returned == Returned(G, in.withCleanup)
      hook == [callback |-> in.withCleanup,
               dependencies |-> IF HasDeps(in.deps) THEN in.deps ELSE Null,
               cleanup |-> IF depsChanged THEN returned ELSE oldCleanup,
               id |-> G.renders]
  IN  [G EXCEPT !.hookMaps[m][key] = hook,
                !.closures = IF depsChanged /\ returned # 0 THEN returned ELSE @,
                !.spent = IF depsChanged /\ oldCleanup # 0 THEN @ \cup {oldCleanup} ELSE @,
                !.lastRender = [kind |-> "effect", key |-> key, map |-> m, old |-> oldHook,
                                deps |-> in.deps, new |-> hook,
                                invoked |-> IF depsChanged /\ oldCleanup # 0
                                              THEN <<oldCleanup>> ELSE <<>>,
                                again |-> depsChanged /\ oldCleanup \in G.spent,
                                owed |-> 0, threw |-> "none", offered |-> FALSE,
                                aborted |-> FALSE,
                                ran |-> depsChanged, queued |-> FALSE]]

\* useInsertionEffect(key, callback, deps): the same steps as useLayoutEffect,
\* stored in fiber.insertionEffects.
useInsertionEffect(G, fiber, key, in) == useLayoutEffect(G, fiber, key, in)

\* oldHook?.current || initial, for numbers: 0 is falsy.
useRef(G, fiber, key, in) ==
  LET m       == fiber.hooks
      oldHook == OldHook(G, fiber, key)
      hook    == [current |-> IF oldHook # NULL /\ oldHook.current # 0
                                THEN oldHook.current ELSE in.initial]
  IN  [G EXCEPT !.hookMaps[m][key] = hook,
                !.lastRender = [kind |-> "ref", key |-> key, map |-> m, old |-> oldHook,
                                initial |-> in.initial, new |-> hook]]

\* fiber.type(fiber.props): the body of App, by its kind.
App(G, fiber, in) ==
  CASE appKind = "state"      -> useState(G, fiber, "k", in.initial)
    [] appKind = "reducer"    -> useReducer(G, fiber, "k", in.initial)
    [] appKind = "transition" -> useState(useTransition(G, fiber), fiber, "k", in.initial)
    [] appKind = "effect"     -> useEffect(G, fiber, "e", in)
    [] appKind = "layout"     -> useLayoutEffect(G, fiber, "l", in)
    [] appKind = "insertion"  -> useInsertionEffect(G, fiber, "i", in)
    [] appKind = "ref"        -> useRef(G, fiber, "r", in)

\* updateHostComponent(root): the root's one element, App, is reconciled
\* against the child of the root's alternate. A PLACEMENT fiber gets a new
\* hooks object, an UPDATE fiber shares the hooks object of its alternate.
updateHostComponent(G) ==
  LET alt    == IF G.wipRoot.alternate = NULL THEN NULL ELSE G.wipRoot.alternate.child
      old    == IF alt = NULL THEN <<>>
                ELSE <<[key |-> alt.key, type |-> alt.type, effectTag |-> alt.effectTag]>>
      r      == reconcileChildren(old, <<Element(G.wipRoot.element, NoKey)>>, <<>>)
      gone   == Len(r.deletions) > 0
      f      == r.new[r.child]
      placed == f.effectTag = "PLACEMENT"
      maps   == IF placed THEN Append(G.hookMaps, EmptyHooks) ELSE G.hookMaps
      fiber  == [type |-> f.type, key |-> f.key, effectTag |-> f.effectTag,
                 hooks |-> IF placed THEN Len(maps) ELSE alt.hooks,
                 alternateHooks |-> IF placed THEN 0 ELSE alt.hooks,
                 child |-> NULL, rendered |-> 0, returned |-> "none"]
  IN  [G EXCEPT !.wipRoot.child = fiber,
                !.currentRoot = IF gone THEN [@ EXCEPT !.child.effectTag = "DELETION"] ELSE @,
                !.deletions = IF gone THEN Append(@, [alt EXCEPT !.effectTag = "DELETION"]) ELSE @,
                !.hookMaps = maps,
                !.issued = IF placed THEN Append(@, <<>>) ELSE @,
                !.owed = IF placed THEN Append(@, 0) ELSE @,
                !.nextUnitOfWork = "app"]

\* queueEffect(hook) for every hook of the fiber with needsToRun and a callback.
RECURSIVE QueueEffects(_, _, _)
QueueEffects(G, m, keys) ==
  IF keys = <<>> THEN G
  ELSE LET key  == Head(keys)
           hook == G.hookMaps[m][key]
       IN  QueueEffects(
             IF hook # NULL /\ "needsToRun" \in DOMAIN hook /\ hook.needsToRun
               THEN [G EXCEPT !.effectQueue = Append(@, [map |-> m, key |-> key,
                                                         id |-> hook.id,
                                                         callback |-> hook.callback,
                                                         committed |-> FALSE]),
                              !.lastRender.queued = TRUE]
               ELSE G,
             m, Tail(keys))

\* reconcileChildren(fiber, children) for the App fiber, whose body returned
\* no children or one host element.
ReconcileAppChildren(G, in) ==
  LET fiber == G.wipRoot.child
      alt   == IF fiber.effectTag = "UPDATE" THEN G.wipRoot.alternate.child.child ELSE NULL
      old   == IF alt = NULL THEN <<>>
               ELSE <<[key |-> alt.key, type |-> alt.type, effectTag |-> alt.effectTag]>>
      elems == IF in.children = "element" THEN <<Element("span", NoKey)>> ELSE <<>>
      r     == reconcileChildren(old, elems, <<>>)
      gone  == Len(r.deletions) > 0
      first == IF r.child = 0 THEN NULL
               ELSE [type |-> r.new[r.child].type, key |-> r.new[r.child].key,
                     effectTag |-> r.new[r.child].effectTag, hooks |-> 0]
  IN  [G EXCEPT !.wipRoot.child.child = first,
                !.currentRoot = IF gone THEN [@ EXCEPT !.child.child.effectTag = "DELETION"] ELSE @,
                !.deletions = IF gone THEN Append(@, [alt EXCEPT !.effectTag = "DELETION"]) ELSE @,
                !.nextUnitOfWork = IF first = NULL THEN "null" ELSE "child"]

\* The body of the component threw out of its hook call.
Aborted(G) == G.lastRender.kind = "effect" /\ G.lastRender.aborted

\* updateFunctionComponent(fiber) for the App fiber: the body runs; unless it
\* returned undefined its children are reconciled and the flagged effects
\* are queued. When the body throws, no boundary of this tree takes the
\* error: it is rethrown to performUnitOfWork, which logs it and walks on
\* from the fiber, which has no sibling.
updateFunctionComponent(G, in) ==
  LET fiber == G.wipRoot.child
      G1    == [G EXCEPT !.wipFiber = fiber, !.renders = @ + 1,
                         !.wipRoot.child.rendered = G.renders + 1]
      G2    == App(G1, fiber, in)
      G3    == ReconcileAppChildren([G2 EXCEPT !.wipRoot.child.returned = in.children], in)
  IN  IF Aborted(G2) THEN [G2 EXCEPT !.nextUnitOfWork = "null"]
      ELSE IF in.children = "undefined"
        THEN [G2 EXCEPT !.wipRoot.child.returned = in.children, !.nextUnitOfWork = "null"]
      ELSE QueueEffects(G3, fiber.hooks, HookKeys)

\* performUnitOfWork(fiber): the root, then App, then the child of App if it
\* has one (a host element without children), then nothing.
performUnitOfWork(G, in) ==
  IF G.nextUnitOfWork = "root" THEN updateHostComponent(G)
  ELSE IF G.nextUnitOfWork = "app" THEN updateFunctionComponent(G, in)
  ELSE [G EXCEPT !.nextUnitOfWork = "null"]

\* The elements of a sequence.
Range(q) == {q[j] : j \in 1..Len(q)}

\* The cleanup closures stored in the hook records of a hooks object.
RECURSIVE HookCleanups(_, _)
HookCleanups(hooks, keys) ==
  IF keys = <<>> THEN <<>>
  ELSE LET hook == hooks[Head(keys)]
       IN  (IF hook # NULL /\ "cleanup" \in DOMAIN hook /\ hook.cleanup # 0
              THEN <<hook.cleanup>> ELSE <<>>) \o HookCleanups(hooks, Tail(keys))

\* commitDeletion(fiber, domParent): nothing is done without a dom parent;
\* with one, the cleanups of the fiber's hooks run and fiber.hooks is nulled.
commitDeletion(G, fiber, domParent) ==
  IF domParent = NULL THEN G
  ELSE IF fiber.hooks = 0 THEN G
  ELSE [G EXCEPT !.lastCommit.invoked = @ \o HookCleanups(G.hookMaps[fiber.hooks], HookKeys),
                 !.lastCommit.again = @ \cup (Range(HookCleanups(G.hookMaps[fiber.hooks],
                                                                HookKeys)) \cap G.spent),
                 !.spent = @ \cup Range(HookCleanups(G.hookMaps[fiber.hooks], HookKeys)),
                 !.lastCommit.discarded = @ \cup {fiber.hooks}]

\* toDelete.forEach((fiber) => commitDeletion(fiber, null))
RECURSIVE CommitDeletions(_, _)
CommitDeletions(G, toDelete) ==
  IF toDelete = <<>> THEN G
  ELSE CommitDeletions(commitDeletion(G, Head(toDelete), NULL), Tail(toDelete))

\* A commit that installs the root and leaves the rest of the bookkeeping.
commitRootKeepingWip(G) ==
  [G EXCEPT !.currentRoot = [priority |-> G.wipRoot.priority, element |-> G.wipRoot.element,
                             child |-> G.wipRoot.child]]

\* commitRoot()
commitRoot(G) ==
  LET toDelete == G.deletions
      root     == [priority |-> G.wipRoot.priority, element |-> G.wipRoot.element,
                   child |-> G.wipRoot.child]
      G1 == [G EXCEPT !.deletions = <<>>,
                      !.lastCommit = [pass |-> G.renders, root |-> root, deletions |-> toDelete,
                                      replaced |-> G.currentRoot,
                                      rootId |-> G.wipRoot.id,
                                      cleanups |-> [j \in 1..Len(toDelete) |->
                                                     IF toDelete[j].hooks = 0 THEN <<>>
                                                     ELSE HookCleanups(G.hookMaps[toDelete[j].hooks],
                                                                       HookKeys)],
                                      invoked |-> <<>>, again |-> {}, discarded |-> {}]]
      G2 == CommitDeletions(G1, toDelete)
  IN  [G2 EXCEPT !.currentRoot = root,
                 !.effectQueue = [j \in 1..Len(@) |->
                                   IF @[j].id = root.child.rendered
                                     THEN [@[j] EXCEPT !.committed = TRUE] ELSE @[j]],
                 !.flushTimers = IF Len(G.effectQueue) > 0 THEN @ + 1 ELSE @,
                 !.wipRoot = NULL]

\* effect.callback() and the bookkeeping on the effect object; the object is
\* still the fiber's hook only while no later render has replaced it.
RECURSIVE RunEffects(_, _)
RunEffects(G, effects) ==
  IF effects = <<>> THEN G
  ELSE LET effect   == Head(effects)
           returned == Returned(G, effect.callback)
           hook     == G.hookMaps[effect.map][effect.key]
           live     == hook # NULL /\ hook.id = effect.id
           G0       == [G EXCEPT !.closures = IF returned # 0 THEN returned ELSE @,
                                 !.owed[effect.map] = returned]
           G1       == [G0 EXCEPT !.lastEffects.early =
                                    IF effect.committed THEN @ ELSE Append(@, effect.id),
                                  !.lastEffects.uncleaned =
                                    IF G.owed[effect.map] = 0 THEN @
                                    ELSE Append(@, G.owed[effect.map])]
       IN  RunEffects(
             IF live
               THEN [G1 EXCEPT !.hookMaps[effect.map][effect.key] =
                                 [hook EXCEPT !.cleanup = IF returned # 0 THEN returned ELSE @,
                                              !.hasRun = TRUE,
                                              !.needsToRun = FALSE]]
               ELSE G1,
             Tail(effects))

\* flushEffects()
flushEffects(G) ==
  RunEffects([G EXCEPT !.effectQueue = <<>>,
                       !.lastEffects = [early |-> <<>>, uncleaned |-> <<>>]],
             G.effectQueue)

(***************************************************************************)
(* The actions of the scheduler: calls the application makes (render, a    *)
(* setter, startTransition, a write to a ref) and callbacks the host runs  *)
(* (the microtask of batchUpdates, the idle callback, the timers). A       *)
(* pending microtask runs before any callback of the host.                 *)
(***************************************************************************)
\* render(element, container)
Render(element) ==
  /\ events < MaxEvents
  /\ SysNext([Sys EXCEPT !.wipRoot = NewRoot(Sys, NORMAL, element),
                         !.roots = @ + 1,
                         !.nextUnitOfWork = "root",
                         !.deletions = <<>>,
                         !.events = @ + 1])

\* A setter (or dispatch) handed out by a render of App is called.
SetState(m, action) ==
  /\ events < MaxEvents
  /\ appKind \in {"state", "reducer", "transition"}
  /\ m \in 1..Len(hookMaps)
  /\ hookMaps[m]["k"] # NULL
  /\ SysNext([setState(Sys, m, "k", action, FALSE) EXCEPT !.events = @ + 1])

\* callback(): the setter calls made inside a transition callback.
RECURSIVE TransitionCallback(_, _, _)
TransitionCallback(G, m, actions) ==
  IF actions = <<>> THEN G
  ELSE TransitionCallback(setState(G, m, "k", Head(actions), TRUE), m, Tail(actions))

\* startTransition(callback), for the closure c made by a render of App.
StartTransition(c, actions) ==
  /\ events < MaxEvents
  /\ c \in 1..Len(transitions)
  /\ LET m  == transitions[c].map
         G1 == setState(Sys, m, "tp", SetTo(TRUE), FALSE)
         G2 == [G1 EXCEPT !.transitions[c].pendingTransitions = @ + 1]
         G3 == TransitionCallback(G2, m, actions)
     IN  SysNext([G3 EXCEPT !.transitionTimers = Append(@, c), !.events = @ + 1])

\* The timer armed by startTransition fires.
TransitionTimer ==
  /\ ~batchingTimeout
  /\ transitionTimers # <<>>
  /\ LET c  == Head(transitionTimers)
         G1 == [Sys EXCEPT !.transitionTimers = Tail(@),
                           !.transitions[c].pendingTransitions = @ - 1]
     IN  SysNext(IF G1.transitions[c].pendingTransitions = 0
                   THEN setState(G1, G1.transitions[c].map, "tp", SetTo(FALSE), FALSE)
                   ELSE G1)

\* The microtask scheduled by batchUpdates: the flush, which registers
\* workLoop when it leaves a unit of work and no work-in-progress root.
Flush ==
  /\ batchingTimeout
  /\ LET G0 == [Sys EXCEPT !.lastFlush =
                  [updates |-> [j \in 1..Len(updateQueue) |-> updateQueue[j].priority],
                   pending |-> IF wipRoot = NULL THEN 0 ELSE wipRoot.priority,
                   built   |-> 0,
                   after   |-> 0]]
     IN  \E G1 \in {flushBatchedUpdates(G0)} :
           SysNext([G1 EXCEPT !.batchingTimeout = FALSE,
                              !.idleCallbacks =
                                 IF G1.nextUnitOfWork # "null" /\ G1.wipRoot = NULL
                                   THEN @ + 1 ELSE @,
                              !.lastFlush.after =
                                 IF G1.wipRoot = NULL THEN 0 ELSE G1.wipRoot.priority])

\* A handler that drops the unit of work and keeps the root.
AbortUnitOnly(G) == [G EXCEPT !.nextUnitOfWork = "null"]

\* The handler of workLoop for an error no boundary captures:
\* nextUnitOfWork = null; wipRoot = null; return.
AbortUpdate(G) == [G EXCEPT !.nextUnitOfWork = "null", !.wipRoot = NULL]

\* workLoop(deadline), one of the pending idle callbacks: units of work until
\* the deadline asks to yield, then the commit when no unit is left, then the
\* next registration. When performUnitOfWork throws (fails) no boundary of
\* this tree captures the error: the update is dropped and workLoop returns.
\* An invocation that finds no unit of work only registers itself again.
WorkLoop(units, in, fails) ==
  /\ ~batchingTimeout
  /\ idleCallbacks > 0
  /\ nextUnitOfWork # "null"
  /\ IF fails
       THEN SysNext([AbortUpdate(Sys) EXCEPT !.idleCallbacks = @ - 1])
       ELSE \E G1 \in {performUnitOfWork(Sys, in)} :
            \E G2 \in {IF units > 1 /\ G1.nextUnitOfWork # "null"
                          THEN performUnitOfWork(G1, in) ELSE G1} :
            \E G3 \in {IF G2.nextUnitOfWork = "null" /\ G2.wipRoot # NULL
                          THEN commitRoot(G2) ELSE G2} :
              SysNext([G3 EXCEPT !.idleCallbacks = (@ - 1) + 1])

\* An invocation whose first unit throws uses neither the number of units
\* nor the input of the render, and one that does not reach the unit of App
\* does not use the input: one choice of them stands for all.
Distinguished(units, in, fails) ==
  LET rendersApp == nextUnitOfWork = "app" \/ (nextUnitOfWork = "root" /\ units > 1)
  IN  /\ fails => units = 1
      /\ (fails \/ ~rendersApp) =>
            /\ in.deps = Null /\ ~in.withCleanup /\ in.initial = 0
            /\ in.cleanupThrows = "none" /\ in.children = "empty"

\* The timer armed by commitRoot fires.
FlushEffects ==
  /\ ~batchingTimeout
  /\ flushTimers > 0
  /\ SysNext([flushEffects(Sys) EXCEPT !.flushTimers = @ - 1])

\* ref.current = value, on the box the last render of App returned.
WriteRef(value) ==
  /\ events < MaxEvents
  /\ appKind = "ref"
  /\ lastRender # NULL
  /\ SysNext([Sys EXCEPT !.hookMaps[lastRender.map]["r"].current = value,
                         !.events = @ + 1])

\* The application calls the hook of App while no component is rendering (from
\* an event handler, a timer): the hook throws a HOOK error when
\* globalState.wipFiber is null, and otherwise runs against that fiber.
HookOutsideRender(in) ==
  /\ events < MaxEvents
  /\ nextUnitOfWork # "app"
  /\ IF wipFiber = NULL
       THEN SysNext([Sys EXCEPT !.events = @ + 1,
                                !.lastHookCall = [threw |-> TRUE, changed |-> FALSE]])
       ELSE \E G1 \in {App([Sys EXCEPT !.renders = @ + 1], wipFiber, in)} :
              SysNext([G1 EXCEPT !.events = @ + 1,
                                 !.lastRender = lastRender,
                                 !.lastHookCall =
                                    [threw |-> FALSE,
                                     changed |-> G1.hookMaps # hookMaps]])

(***************************************************************************)
(* use(key, thenable) at one call site of a component that is rendered     *)
(* again and again over one hooks object. A thenable is a number; it       *)
(* settles once, and the callbacks registered with then() run afterwards,  *)
(* each in a step of its own.                                              *)
(***************************************************************************)
MaxThenables == 2   \* thenables the component passes to use
MaxUses == 3        \* calls of use

Thenables == 1..MaxThenables

\* The value a thenable resolves to, and the reason it is rejected with.
ResolvedValue(p) == 10 + p
Reason(p) == 20 + p

UseIdle ==
  /\ useHook = NULL /\ settled = [p \in Thenables |-> "pending"] /\ subscribed = {}
  /\ useOut = NULL /\ useCalls = 0

\* use(key, promise) over the record oldHook stored at the key: the record it
\* leaves at the key, whether it registered callbacks with promise.then, and
\* how the call ended. captured: the answer of captureError to the HOOK error.
use(oldHook, promise, captured) ==
  IF oldHook # NULL /\ oldHook.status = "fulfilled"
    THEN [hook |-> oldHook, then |-> FALSE, outcome |-> "returned", value |-> oldHook.value]
  ELSE IF oldHook # NULL /\ oldHook.status = "rejected"
    THEN [hook |-> oldHook, then |-> FALSE, outcome |-> "threw reason", value |-> oldHook.reason]
  ELSE
    LET hook == IF oldHook # NULL THEN oldHook
                ELSE [promise |-> promise, status |-> "pending", value |-> 0, reason |-> 0]
    IN  IF hook.promise # promise
          THEN [hook |-> [hook EXCEPT !.promise = promise, !.status = "pending"],
                then |-> TRUE, outcome |-> "threw thenable", value |-> promise]
        ELSE IF ~captured
          THEN [hook |-> oldHook, then |-> FALSE, outcome |-> "threw HOOK error", value |-> 0]
        ELSE [hook |-> hook, then |-> FALSE, outcome |-> "threw thenable", value |-> promise]

\* A render of the component calls use(key, promise).
Use(promise, captured) ==
  /\ useCalls < MaxUses
  /\ \E r \in {use(useHook, promise, captured)} :
       /\ useHook' = r.hook
       /\ subscribed' = IF r.then THEN subscribed \cup {promise} ELSE subscribed
       /\ useOut' = [promise |-> promise, before |-> useHook, settled |-> settled[promise],
                     waiting |-> promise \in subscribed,
                     outcome |-> r.outcome, value |-> r.value]
  /\ useCalls' = useCalls + 1
  /\ UNCHANGED <<settled, memoVars, keyVars, ebVars, loopVars, eqVars, recVars, errVars, sysVars>>

\* A thenable settles.
Settle(promise, how) ==
  /\ settled[promise] = "pending"
  /\ settled' = [settled EXCEPT ![promise] = how]
  /\ UNCHANGED <<useHook, subscribed, useOut, useCalls, memoVars, keyVars, ebVars, loopVars,
                 eqVars, recVars, errVars, sysVars>>

\* The callbacks the hook registered with a settled thenable run: they write
\* the status and the value or the reason into the hook.
ThenCallback(promise) ==
  /\ promise \in subscribed
  /\ settled[promise] # "pending"
  /\ useHook' = IF settled[promise] = "fulfilled"
                  THEN [useHook EXCEPT !.status = "fulfilled", !.value = ResolvedValue(promise)]
                  ELSE [useHook EXCEPT !.status = "rejected", !.reason = Reason(promise)]
  /\ subscribed' = subscribed \ {promise}
  /\ UNCHANGED <<settled, useOut, useCalls, memoVars, keyVars, ebVars, loopVars, eqVars, recVars, errVars, sysVars>>

(***************************************************************************)
(* useMemo(key, factory, deps) and useCallback(key, callback, deps) at one *)
(* call site of a component rendered again and again over one hooks        *)
(* object. Every invocation of the factory makes a new value; 0 stands for *)
(* undefined.                                                              *)
(***************************************************************************)
MaxMemoCalls == 3   \* calls of useMemo / useCallback

\* The dependency lists the component passes.
MemoDeps ==
  {Null, Undefined, Arr(<<>>), Arr(<<Num(1)>>), Arr(<<Num(2)>>), Arr(<<Num(1), Num(2)>>),
   Arr(<<Arr(<<Num(1)>>)>>), Arr(<<Obj(<<"x">>, <<Num(1)>>)>>),
   Arr(<<Obj(<<"x">>, <<Num(2)>>)>>)}

MemoIdle == memoHook = NULL /\ memoOut = NULL /\ memoCalls = 0 /\ factoryCalls = 0

\* A useMemo that calls the factory in every render.
useMemoAlways(oldHook, deps, throws, captured, made) ==
  [hook |-> [value |-> made, deps |-> deps], called |-> TRUE,
   outcome |-> "returned", value |-> made]

\* useMemo(key, factory, deps) over the record oldHook stored at the key.
\* made: the value the factory makes if it is called and returns; throws:
\* the factory throws instead; captured: the answer of captureError then.
useMemo(oldHook, deps, throws, captured, made) ==
  LET hasChanged == \/ oldHook = NULL
                    \/ NoDeps(deps)
                    \/ NoDeps(oldHook.deps)
                    \/ ~areDepsEqual(deps, oldHook.deps)
      rethrown   == hasChanged /\ throws /\ ~captured /\ (oldHook = NULL \/ oldHook.value = 0)
      memoizedValue ==
        IF ~hasChanged THEN oldHook.value
        ELSE IF ~throws THEN made
        ELSE IF captured THEN 0
        ELSE IF oldHook # NULL THEN oldHook.value ELSE 0
  IN  IF rethrown
        THEN [hook |-> oldHook, called |-> TRUE, outcome |-> "threw", value |-> 0]
        ELSE [hook |-> [value |-> memoizedValue, deps |-> deps], called |-> hasChanged,
              outcome |-> "returned", value |-> memoizedValue]

\* useCallback(key, callback, deps): useMemo with the factory () => callback.
useCallback(oldHook, deps, callback) == useMemo(oldHook, deps, FALSE, FALSE, callback)

\* What a call leaves behind.
MemoCalled(r, deps, hook) ==
  /\ memoHook' = r.hook
  /\ memoOut' = [old |-> memoHook, deps |-> deps, hook |-> hook, called |-> r.called,
                 outcome |-> r.outcome, value |-> r.value]
  /\ memoCalls' = memoCalls + 1
  /\ factoryCalls' = IF r.called THEN factoryCalls + 1 ELSE factoryCalls
  /\ UNCHANGED <<useVars, keyVars, ebVars, loopVars, eqVars, recVars, errVars, sysVars>>

\* A render of the component calls useMemo(key, factory, deps).
UseMemo(deps, throws, captured) ==
  /\ memoCalls < MaxMemoCalls
  /\ \E r \in {useMemo(memoHook, deps, throws, captured, factoryCalls + 1)} :
       MemoCalled(r, deps, "useMemo")

\* A render of the component calls useCallback(key, callback, deps), with
\* the function the render has just made.
UseCallback(deps) ==
  /\ memoCalls < MaxMemoCalls
  /\ \E r \in {useCallback(memoHook, deps, factoryCalls + 1)} :
       MemoCalled(r, deps, "useCallback")

(***************************************************************************)
(* createHooks(name): the keys generated for the hook calls of a component *)
(* over its renders. Every pass builds a new fiber for the component;      *)
(* fibers are numbered in the order they are built. A string is the        *)
(* sequence of the parts that its underscores separate.                    *)
(***************************************************************************)
MaxKeyRenders == 3   \* renders of the component
MaxHookCalls == 2    \* hook calls in one render

HookNames == {"useState", "useEffect"}

\* The name handed to createHooks: none, or "a_1".
NoName == <<>>
HooksNames == {NoName, <<"a", "1">>}

\* globalState.wipFiber.type?.name
ComponentName == <<"App">>

KeyIdle ==
  /\ componentHookCounters = <<>> /\ keyFiber = 0 /\ keyRendering = FALSE
  /\ keyCalls = <<>> /\ keyKeys = <<>> /\ keyPrev = NULL

\* A getKey that counts over all fibers instead of per fiber.
getKeyOverAllFibers(counters, fiber, hookName, name) ==
  LET used == {f \in 1..Len(counters) : counters[f] > 0}
      RECURSIVE Sum(_)
      Sum(S) == IF S = {} THEN 0
                ELSE LET f == CHOOSE x \in S : TRUE IN counters[f] + Sum(S \ {f})
      currentIndex == Sum(used)
  IN  [counters |-> [counters EXCEPT ![fiber] = IF @ = -1 THEN 1 ELSE @ + 1],
       key |-> <<hookName>> \o (IF name = NoName THEN ComponentName ELSE name)
                 \o <<IndexName(currentIndex)>>]

\* getKey(hookName) of createHooks(name), called while fiber is
\* globalState.wipFiber: the counters afterwards and the key.
getKey(counters, fiber, hookName, name) ==
  LET has == IF counters[fiber] = -1 THEN [counters EXCEPT ![fiber] = 0] ELSE counters
      currentIndex == has[fiber]
  IN  [counters |-> [has EXCEPT ![fiber] = currentIndex + 1],
       key |-> <<hookName>> \o (IF name = NoName THEN ComponentName ELSE name)
                 \o <<IndexName(currentIndex)>>]

\* resetHookCounter(fiber)
resetHookCounter(counters, fiber) ==
  IF counters[fiber] # -1 THEN [counters EXCEPT ![fiber] = 0] ELSE counters

\* updateFunctionComponent(fiber) up to the call of the component, for the
\* fiber a pass has built for it.
BeginRender ==
  /\ ~keyRendering
  /\ Len(componentHookCounters) < MaxKeyRenders
  /\ LET fiber == Len(componentHookCounters) + 1
     IN  /\ keyFiber' = fiber
         /\ componentHookCounters' = resetHookCounter(Append(componentHookCounters, -1), fiber)
  /\ keyRendering' = TRUE
  /\ keyPrev' = IF keyFiber = 0 THEN NULL ELSE [calls |-> keyCalls, keys |-> keyKeys]
  /\ keyCalls' = <<>>
  /\ keyKeys' = <<>>
  /\ UNCHANGED <<useVars, memoVars, ebVars, loopVars, eqVars, recVars, errVars, sysVars>>

\* The body of the component calls createHooks(name).<hookName>(...).
HookCall(hookName, name) ==
  /\ keyRendering
  /\ Len(keyCalls) < MaxHookCalls
  /\ \E r \in {getKey(componentHookCounters, keyFiber, hookName, name)} :
       /\ componentHookCounters' = r.counters
       /\ keyKeys' = Append(keyKeys, r.key)
  /\ keyCalls' = Append(keyCalls, [hookName |-> hookName, name |-> name])
  /\ UNCHANGED <<keyFiber, keyRendering, keyPrev, useVars, memoVars, ebVars, loopVars,
                 eqVars, recVars, errVars, sysVars>>

\* The body of the component returns.
EndRender ==
  /\ keyRendering
  /\ keyRendering' = FALSE
  /\ UNCHANGED <<componentHookCounters, keyFiber, keyCalls, keyKeys, keyPrev, useVars, memoVars, ebVars, loopVars,
                 eqVars, recVars, errVars, sysVars>>

\* A handler calls a hook of createHooks between two passes: getKey counts
\* on the fiber that globalState.wipFiber still names.
KeyOutsideRender(hookName, name) ==
  /\ ~keyRendering
  /\ keyFiber # 0
  /\ componentHookCounters[keyFiber] <= Len(keyCalls)
  /\ componentHookCounters' = getKey(componentHookCounters, keyFiber, hookName, name).counters
  /\ UNCHANGED <<keyFiber, keyRendering, keyCalls, keyKeys, keyPrev, useVars, memoVars, ebVars, loopVars,
                 eqVars, recVars, errVars, sysVars>>

(***************************************************************************)
(* ErrorBoundary over its renders. The boundary keeps its place in the     *)
(* tree, so every render is an update of the same component and works on   *)
(* the same hook records. A render here is updateFunctionComponent for the *)
(* boundary's fiber: the body of ErrorBoundary and the queueing of the     *)
(* effects it flagged.                                                     *)
(***************************************************************************)
MaxBoundaryRenders == 4   \* renders of the boundary
MaxBoundaryQueue == 2     \* setter calls a render finds queued, per hook

\* The children prop: element lists, a new array at every render.
ChildrenProps == {Arr(<<Num(1)>>), Arr(<<Num(2)>>)}

\* The error captureError hands to setError; 0 is null.
CapturedError == 1

EbIdle ==
  /\ ebHooks = [k \in {"hasError", "error", "errorInfo"} |->
                  [state |-> IF k = "hasError" THEN FALSE ELSE 0, queue |-> <<>>]]
  /\ ebReset = NULL /\ ebEffectQueue = <<>> /\ ebTimers = 0 /\ ebRender = NULL
  /\ ebRenders = 0 /\ ebMachine = "no-error" /\ ebPendingReset = FALSE

\* The dependency list of the "error-boundary-reset" effect.
NoResetDeps(children) == Arr(<<>>)

ResetDeps(children) == Arr(<<children>>)

\* setHasError(a); setError(b); setErrorInfo(c)
BoundarySetters(hooks, a, b, c) ==
  [hooks EXCEPT !["hasError"].queue = Append(@, SetTo(a)),
                !["error"].queue = Append(@, SetTo(b)),
                !["errorInfo"].queue = Append(@, SetTo(c))]

\* ErrorBoundary({ fallback, onError, children }) and the queueing of its
\* effects: the three useState calls drain their queues, a record is pushed
\* for the new work-in-progress fiber, the reset effect is flagged when
\* [children] differs from the stored list, the cleanup effect at the mount,
\* and the fallback is returned when hasError is set.
ErrorBoundary(children) ==
  /\ ebRenders < MaxBoundaryRenders
  /\ \E drained \in {[k \in DOMAIN ebHooks |->
                        [state |-> FoldQueue(ebHooks[k].state, ebHooks[k].queue, FALSE),
                         queue |-> <<>>]]} :
       LET hasError == drained["hasError"].state
           deps     == ResetDeps(children)
           flagged  == ebReset = NULL \/ ~areDepsEqual(deps, ebReset.dependencies)
           changed  == ebRender # NULL /\ ~deepEqual(children, ebRender.children)
       IN  /\ ebHooks' = drained
           /\ errorBoundaryStack' =
                Append(errorBoundaryStack, [fiber |-> <<ebRenders + 1, 1>>])
           /\ ebReset' = [dependencies |-> deps]
           /\ ebEffectQueue' =
                ebEffectQueue
                  \o (IF flagged THEN <<[kind |-> "reset", hasError |-> hasError]>> ELSE <<>>)
                  \o (IF ebReset = NULL THEN <<[kind |-> "cleanup", hasError |-> hasError]>>
                                        ELSE <<>>)
           /\ ebRender' = [hasError |-> hasError, error |-> drained["error"].state,
                           children |-> children, changed |-> changed,
                           machine |-> ebMachine, queuedReset |-> flagged,
                           mount |-> ebReset = NULL,
                           returned |-> IF hasError THEN "fallback" ELSE "children",
                           prevReturned |-> IF ebRender = NULL THEN "none"
                                            ELSE ebRender.returned]
           /\ ebPendingReset' = (ebPendingReset \/ (ebMachine = "has-error" /\ changed))
  /\ ebRenders' = ebRenders + 1
  /\ UNCHANGED <<ebTimers, ebMachine, useVars, memoVars, keyVars, loopVars, errTree, errBoundaries,
                 errPass, errCursor, errTimers, errShown, errOnError, errOut, errDeleted,
                 eqVars, recVars, sysVars>>

\* A descendant the boundary rendered throws and captureError selects the
\* boundary: setTimeout(() => { setHasError(true); ... }, 0).
BoundarySelected ==
  /\ ebRender # NULL /\ ebRender.returned = "children"
  /\ ebTimers + Len(ebHooks["hasError"].queue) < MaxBoundaryQueue
  /\ ebTimers' = ebTimers + 1
  /\ UNCHANGED <<ebHooks, ebReset, ebEffectQueue, ebRender, ebRenders, ebMachine,
                 ebPendingReset, useVars, memoVars, keyVars, loopVars, eqVars, recVars, errVars, sysVars>>

\* The timer of captureError fires.
BoundaryTimer ==
  /\ ebTimers > 0
  /\ ebTimers' = ebTimers - 1
  /\ ebHooks' = BoundarySetters(ebHooks, TRUE, CapturedError, CapturedError)
  /\ ebMachine' = "has-error"
  /\ UNCHANGED <<ebReset, ebEffectQueue, ebRender, ebRenders, ebPendingReset,
                 useVars, memoVars, keyVars, loopVars, eqVars, recVars, errVars, sysVars>>

\* The callback of the reset effect, with the hasError of the render that
\* flagged it.
RECURSIVE RunBoundaryEffects(_, _)
RunBoundaryEffects(hooks, queue) ==
  IF queue = <<>> THEN hooks
  ELSE RunBoundaryEffects(IF Head(queue).kind = "reset" /\ Head(queue).hasError
                            THEN BoundarySetters(hooks, FALSE, 0, 0)
                            ELSE hooks,
                          Tail(queue))

\* flushEffects() over the boundary's queued effects.
FlushBoundaryEffects ==
  /\ ebEffectQueue # <<>>
  /\ ebHooks' = RunBoundaryEffects(ebHooks, ebEffectQueue)
  /\ ebEffectQueue' = <<>>
  /\ ebMachine' = IF ebPendingReset THEN "no-error" ELSE ebMachine
  /\ ebPendingReset' = FALSE
  /\ UNCHANGED <<ebReset, ebTimers, ebRender, ebRenders, useVars, memoVars, keyVars, loopVars,
                 eqVars, recVars, errVars, sysVars>>

(***************************************************************************)
(* workLoop(deadline) over the units of a pass in which nothing throws. A  *)
(* root in progress has a priority and a number of units left (the fibers  *)
(* performUnitOfWork has still to return); the deadline is the sequence of *)
(* values its timeRemaining() returns, call after call.                    *)
(***************************************************************************)
MaxLoopUnits == 2   \* units of the largest pass
MaxLoopRoots == 1   \* roots constructed in a behaviour

\* Values of wipRoot.priority: the four levels, and 0 for a root without one.
LoopPriorities == {0, IMMEDIATE, NORMAL, LOW, IDLE}

\* Values of deadline.timeRemaining(): below every threshold, between two
\* thresholds, at or above every threshold.
ReadingValues == {0, 1, 3, 10, 20}

\* The deadlines an invocation may meet: one value for each unit it may do.
Deadlines == [1..(IF loopRoot = NULL THEN 0 ELSE loopRoot.units) -> ReadingValues]

LoopIdle == loopRoot = NULL /\ loopScheduled = 0 /\ loopCurrent = 0 /\ loopOut = NULL

\* globalState.wipRoot?.priority || PRIORITY.NORMAL
fiberPriority(root) == IF root = NULL \/ root.priority = 0 THEN NORMAL ELSE root.priority

\* A slice of 5 whatever the priority.
timeSliceFlat(priority) == 5

\* fiberPriority === IMMEDIATE ? 16 : === NORMAL ? 5 : === LOW ? 2 : 1
timeSlice(priority) ==
  IF priority = IMMEDIATE THEN 16
  ELSE IF priority = NORMAL THEN 5
  ELSE IF priority = LOW THEN 2
  ELSE 1

\* A loop that reads the deadline before each unit.
RECURSIVE unitsDoneReadingFirst(_, _, _, _)
unitsDoneReadingFirst(pending, slice, deadline, done) ==
  IF pending = 0 THEN done
  ELSE IF deadline[done + 1] < slice THEN done
  ELSE unitsDoneReadingFirst(pending - 1, slice, deadline, done + 1)

\* while (nextUnitOfWork && !shouldYield) { nextUnitOfWork =
\* performUnitOfWork(...); shouldYield = deadline.timeRemaining() < timeSlice }
\* : the units done by the loop, done of them being done so far.
RECURSIVE unitsDone(_, _, _, _)
unitsDone(pending, slice, deadline, done) ==
  IF pending = 0 THEN done
  ELSE IF deadline[done + 1] < slice THEN done + 1
  ELSE unitsDone(pending - 1, slice, deadline, done + 1)

\* render / scheduleUpdate: a new root in progress, whatever was.
ScheduleRoot(priority, units) ==
  /\ loopScheduled < MaxLoopRoots
  /\ loopRoot' = [id |-> loopScheduled + 1, priority |-> priority, units |-> units]
  /\ loopScheduled' = loopScheduled + 1
  /\ UNCHANGED <<loopCurrent, loopOut, useVars, memoVars, keyVars, ebVars,
                 eqVars, recVars, errVars, sysVars>>

\* workLoop(deadline): the slice of the root's priority, the loop, the
\* commit when no unit is left and a root is in progress, and
\* requestIdleCallback(workLoop), by which the host invokes it again.
InvokeWorkLoop(deadline) ==
  /\ \E pending \in {IF loopRoot = NULL THEN 0 ELSE loopRoot.units} :
     \E done \in {unitsDone(pending, timeSlice(fiberPriority(loopRoot)), deadline, 0)} :
       LET commits == loopRoot # NULL /\ pending - done = 0
       IN  /\ loopRoot' = IF loopRoot = NULL \/ commits THEN NULL
                          ELSE [loopRoot EXCEPT !.units = pending - done]
           /\ loopCurrent' = IF commits THEN loopRoot.id ELSE loopCurrent
           /\ loopOut' = [priority |-> IF loopRoot = NULL THEN 0 ELSE loopRoot.priority,
                          rooted |-> loopRoot # NULL,
                          pending |-> pending, done |-> done,
                          read |-> SubSeq(deadline, 1, done),
                          committed |-> commits]
  /\ UNCHANGED <<loopScheduled, useVars, memoVars, keyVars, ebVars,
                 eqVars, recVars, errVars, sysVars>>

HookIdle == UseIdle /\ MemoIdle /\ KeyIdle /\ EbIdle /\ LoopIdle

InitSys == SysInit /\ EqIdle /\ RecIdle /\ ErrIdle /\ HookIdle
Next ==
  \/ Render("App")
  \/ \E m \in 1..MaxEvents, action \in SetterActions : SetState(m, action)
  \/ \E c \in 1..MaxEvents, actions \in SeqsUpTo(TransitionActions, MaxCalls) :
       StartTransition(c, actions)
  \/ TransitionTimer
  \/ Flush
  \/ \E units \in 1..2, in \in RenderInputs, fails \in BOOLEAN :
       Distinguished(units, in, fails) /\ WorkLoop(units, in, fails)
  \/ FlushEffects
  \/ \E value \in RefValues : WriteRef(value)
  \/ \E in \in RenderInputs : HookOutsideRender(in)
Spec == InitSys /\ [][Next]_vars

\* The application calls render only, with one component or the other at
\* the root, so that a pass can replace the committed component; the
\* component has a state hook or a plain effect.
NextMount ==
  \/ \E element \in AppTypes : events < MaxMounts /\ Render(element)
  \/ \E units \in 1..2, in \in MountInputs, fails \in BOOLEAN :
       Distinguished(units, in, fails) /\ WorkLoop(units, in, fails)
  \/ FlushEffects
InitMount == InitSys /\ appKind \in {"state", "effect"}
SpecMount == InitMount /\ [][NextMount]_vars

\* The application renders App, whose body calls the state hook and may
\* return a host element, so that a pass can yield between the unit of App
\* and the unit of its child; the setter App was handed is called at any
\* time, the first pass included.
NextSet ==
  \/ Render("App")
  \/ \E m \in 1..MaxEvents, action \in SetterActions : SetState(m, action)
  \/ Flush
  \/ \E units \in 1..2, in \in MountInputs, fails \in BOOLEAN :
       Distinguished(units, in, fails) /\ WorkLoop(units, in, fails)
InitSet == InitSys /\ appKind = "state"
SpecSet == InitSet /\ [][NextSet]_vars

InitEq == EqInit /\ RecIdle /\ ErrIdle /\ SysIdle /\ HookIdle
NextEq == Compare
SpecEq == InitEq /\ [][NextEq]_vars

InitRec == RecInit /\ EqIdle /\ ErrIdle /\ SysIdle /\ HookIdle
NextRec ==
  \/ \E elems \in SeqsUpTo(Entries, MaxElems) : Reconcile(elems)
  \/ CommitRec
  \/ SupersedeRec
SpecRec == InitRec /\ [][NextRec]_vars

InitErr == ErrInit /\ EqIdle /\ RecIdle /\ SysIdle /\ HookIdle
NextErr ==
  \/ \E thrown \in Thrown : RenderFiber(thrown)
  \/ StartPass
  \/ \E p \in 1..MaxPasses, n \in 1..MaxFibers : captureError(<<p, n>>)
  \/ CaptureTimer
  \/ Unmount
SpecErr == InitErr /\ [][NextErr]_vars

\* The work loop alone, no component throwing, over larger trees.
MaxWalkFibers == 5   \* fibers of a tree the work loop walks
InitWalk ==
  /\ errTree \in UNION {PreorderTrees(k) : k \in 1..MaxWalkFibers}
  /\ errBoundaries \in SUBSET (1..Len(errTree))
  /\ errPass = 1 /\ errCursor = 1
  /\ errorBoundaryStack = <<>> /\ errTimers = <<>> /\ errShown = {}
  /\ errOnError = <<>> /\ errOut = NULL /\ errDeleted = {}
  /\ EqIdle /\ RecIdle /\ SysIdle /\ HookIdle
NextWalk ==
  \/ RenderFiber("none")
  \/ StartPass
SpecWalk == InitWalk /\ [][NextWalk]_vars

InitHook == HookIdle /\ EqIdle /\ RecIdle /\ ErrIdle /\ SysIdle

NextUse ==
  \/ \E promise \in Thenables, captured \in BOOLEAN : Use(promise, captured)
  \/ \E promise \in Thenables, how \in {"fulfilled", "rejected"} : Settle(promise, how)
  \/ \E promise \in Thenables : ThenCallback(promise)
SpecUse == InitHook /\ [][NextUse]_vars

NextMemo ==
  \/ \E deps \in MemoDeps, throws \in BOOLEAN, captured \in BOOLEAN :
       UseMemo(deps, throws, captured)
  \/ \E deps \in MemoDeps : UseCallback(deps)
SpecMemo == InitHook /\ [][NextMemo]_vars

NextBoundary ==
  \/ \E children \in ChildrenProps : ErrorBoundary(children)
  \/ BoundarySelected
  \/ BoundaryTimer
  \/ FlushBoundaryEffects

SpecBoundary == InitHook /\ [][NextBoundary]_vars

NextLoop ==
  \/ \E priority \in LoopPriorities, units \in 1..MaxLoopUnits : ScheduleRoot(priority, units)
  \/ \E deadline \in Deadlines : InvokeWorkLoop(deadline)

SpecLoop == InitHook /\ [][NextLoop]_vars

\* The host invokes workLoop again and again.
SpecLoopLive == SpecLoop /\ WF_vars(\E deadline \in Deadlines : InvokeWorkLoop(deadline))

NextKeys ==
  \/ BeginRender
  \/ \E hookName \in HookNames, name \in HooksNames : HookCall(hookName, name)
  \/ EndRender
  \/ \E hookName \in HookNames, name \in HooksNames : KeyOutsideRender(hookName, name)
SpecKeys == InitHook /\ [][NextKeys]_vars

(***************************************************************************)
(* Claims about deepEqual                                                  *)
(***************************************************************************)

\* C7: deepEqual is reflexive and symmetric: every value is deep-equal to
\* itself, and comparing a with b gives the same answer as comparing b with a.
C7_DeepEqualReflexiveSymmetric ==
  eqOut # NULL => (eqOut.aa /\ eqOut.ab = eqOut.ba)

\* A comparison of two objects with as many keys as each other under
\* different names, one of them holding undefined.
C7_Witness ==
  /\ eqOut # NULL
  /\ eqA = Obj(<<"x">>, <<Undefined>>)
  /\ eqB = Obj(<<"y">>, <<Num(1)>>)

(***************************************************************************)
(* Claims about reconcileChildren                                          *)
(***************************************************************************)
Reconciled == recPc = "reconciled"

\* The new fibers created for the entry at position i (0-based).
FibersOf(i) == {f \in 1..Len(newFibers) : newFibers[f].index = i}

\* The key the claim gives the entry at position i: explicit, else position.
ClaimKey(i) ==
  IF elements[i + 1].key # NoKey THEN elements[i + 1].key ELSE IndexKey(i)

\* The entry at position i has the key and the type of some old child.
MatchesOld(i) ==
  \E j \in 1..Len(oldChildren) :
    oldChildren[j].key = ClaimKey(i) /\ oldChildren[j].type = elements[i + 1].type

\* The old child j is the alternate of an UPDATE fiber.
Reused(j) ==
  \E f \in 1..Len(newFibers) :
    newFibers[f].effectTag = "UPDATE" /\ newFibers[f].alternate = j

\* C1: UPDATE for exactly the new elements whose key and type match an old
\* child, PLACEMENT for every other element (an entry that is no element
\* gets no fiber), DELETION for exactly the old children no UPDATE fiber
\* reuses, each of them once on the deletions list, and one tag per fiber.
C1_TagsExact ==
  Reconciled =>
    /\ \A i \in 0..(Len(elements) - 1) :
         IF IsFalsy(elements[i + 1]) THEN FibersOf(i) = {}
         ELSE /\ Cardinality(FibersOf(i)) = 1
              /\ \A f \in FibersOf(i) :
                   newFibers[f].effectTag = (IF MatchesOld(i) THEN "UPDATE" ELSE "PLACEMENT")
    /\ \A j \in 1..Len(oldChildren) :
         (oldChildren[j].effectTag = "DELETION") <=> ~Reused(j)
    /\ \A j \in 1..Len(oldChildren) :
         Cardinality({d \in 1..Len(deletions) : deletions[d] = j})
           = (IF Reused(j) THEN 0 ELSE 1)

\* Two old children carry one key and the new list is empty.
C1_Witness ==
  /\ Reconciled
  /\ Len(oldChildren) = 2
  /\ oldChildren[1].key = oldChildren[2].key
  /\ elements = <<>>

\* The old chain has distinct explicit keys and the element list is a
\* permutation of it with the types unchanged.
KeyedPermutation ==
  /\ Len(elements) = Len(oldChildren)
  /\ \A j \in 1..Len(oldChildren) : oldChildren[j].key \in ExplicitKeys
  /\ \A j, k \in 1..Len(oldChildren) :
       oldChildren[j].key = oldChildren[k].key => j = k
  /\ \A i \in 1..Len(elements) : elements[i] \in Elements /\ elements[i].key \in ExplicitKeys
  /\ \A j \in 1..Len(oldChildren) :
       \E i \in 1..Len(elements) :
         elements[i].key = oldChildren[j].key /\ elements[i].type = oldChildren[j].type

\* C2: reconciling a permutation of a keyed child list gives one UPDATE
\* fiber per element, no PLACEMENT fiber and no deletion, and each new
\* fiber's alternate is the old fiber of the same key.
C2_PermutationReusesByKey ==
  (Reconciled /\ KeyedPermutation) =>
    /\ Len(newFibers) = Len(elements)
    /\ \A f \in 1..Len(newFibers) :
         /\ newFibers[f].effectTag = "UPDATE"
         /\ newFibers[f].alternate \in 1..Len(oldChildren)
         /\ oldChildren[newFibers[f].alternate].key = elements[newFibers[f].index + 1].key
         /\ oldChildren[newFibers[f].alternate].type = elements[newFibers[f].index + 1].type
    /\ deletions = <<>>

\* The list [a, b] reconciled as [b, a].
C2_Witness ==
  /\ Reconciled
  /\ KeyedPermutation
  /\ Len(elements) = 2
  /\ oldChildren[1].key = "a" /\ oldChildren[2].key = "b"
  /\ elements[1].key = "b" /\ elements[2].key = "a"
  /\ Len(newFibers) = 2
  /\ newFibers[1].alternate = 2 /\ newFibers[2].alternate = 1

(***************************************************************************)
(* Claims about captureError                                               *)
(***************************************************************************)
\* The fiber f and the fibers above it, by the parent links of its pass.
SelfAndAncestors(f) == {f} \cup {<<f[1], n>> : n \in NodeAncestors(errTree, f[2])}

\* The fibers that had a record on the stack when captureError was called.
Registered == {errOut.stack[i].fiber : i \in 1..Len(errOut.stack)}

\* C6: captureError selects the innermost boundary that is the failing fiber
\* or an ancestor of it (every other such boundary is above the selected
\* one), and returns false exactly when the stack holds no such boundary.
C6_SelectsInnermostBoundary ==
  errOut # NULL =>
    LET around == Registered \cap SelfAndAncestors(errOut.fiber)
    IN  /\ errOut.result <=> around # {}
        /\ errOut.result =>
             /\ errOut.boundary \in around
             /\ \A b \in around : b \in SelfAndAncestors(errOut.boundary)

\* An outer and an inner boundary are both ancestors of the failing fiber
\* and the inner one is selected.
C6_Witness ==
  /\ errOut # NULL
  /\ errOut.result
  /\ \E b1 \in Registered :
       /\ b1 # errOut.boundary
       /\ b1 \in SelfAndAncestors(errOut.boundary)
       /\ errOut.boundary \in SelfAndAncestors(errOut.fiber)
       /\ errOut.boundary # errOut.fiber

(***************************************************************************)
(* Claims about the state hooks and the batch                              *)
(***************************************************************************)
\* The last execution of App ran the state hook of its component.
RenderedState == lastRender # NULL /\ lastRender.kind = "state" /\ lastRender.key = "k"

\* The position of the last replacement value among the actions, 0 if none.
LastReplacement(actions) ==
  LET at == {j \in 1..Len(actions) : ~actions[j].updater}
  IN  IF at = {} THEN 0 ELSE CHOOSE j \in at : \A n \in at : n <= j

\* The left-to-right fold of the actions over prev, in closed form: the last
\* replacement value (prev when there is none) plus what the updaters after
\* it add.
RECURSIVE SumValues(_, _)
SumValues(actions, from) ==
  IF from > Len(actions) THEN 0 ELSE actions[from].value + SumValues(actions, from + 1)

ExpectedState(prev, actions) ==
  LET j == LastReplacement(actions)
  IN  (IF j = 0 THEN prev ELSE actions[j].value) + SumValues(actions, j + 1)

\* C3: the state a render returns is the FIFO fold, over the previous state,
\* of the setter calls made since the hook was last rendered, the hook's
\* queue is empty after the render, and until then the queue holds exactly
\* those calls in the order they were made.
C3_SetterCallsFoldFIFO ==
  /\ RenderedState =>
       /\ lastRender.returned = ExpectedState(lastRender.prev, lastRender.issued)
       /\ lastRender.new.queue = <<>>
  /\ \A m \in 1..Len(hookMaps) :
       hookMaps[m]["k"] # NULL /\ "queue" \in DOMAIN hookMaps[m]["k"]
         => hookMaps[m]["k"].queue = issued[m]

\* Two setter calls whose order matters were folded by a render: the
\* updater v => v + 1, then the replacement value 5.
C3_Witness ==
  /\ RenderedState
  /\ lastRender.issued = <<Inc, SetTo(5)>>
  /\ lastRender.returned = 5
  /\ lastRender.old # NULL

\* C4: a flush of the batch constructs at most one work-in-progress root,
\* however many setter calls enqueued an update.
C4_OneRootPerBatch ==
  lastFlush # NULL => lastFlush.built <= 1

\* The priorities a flush has to respect: those of the updates of the batch
\* and that of the root pending when the flush ran.
FlushPriorities ==
  {lastFlush.updates[j] : j \in 1..Len(lastFlush.updates)}
    \cup (IF lastFlush.pending = 0 THEN {} ELSE {lastFlush.pending})

\* C5: after a flush the work-in-progress root is at least as urgent (its
\* priority number is at most as large) as every update of the batch and as
\* the root that was pending when the flush ran.
C5_NoPriorityDowngrade ==
  (lastFlush # NULL /\ lastFlush.after # 0) =>
    \A p \in FlushPriorities : lastFlush.after <= p

(***************************************************************************)
(* Claims about the effect hooks and the ref hook                          *)
(***************************************************************************)
\* The last execution of App ran its effect hook.
RenderedEffect == lastRender # NULL /\ lastRender.kind = "effect"

\* C8: a render that passes no dependency list re-runs the hook: useEffect
\* flags it as needing to run and queues it, useLayoutEffect and
\* useInsertionEffect invoke the callback.
C8_NullDepsAlwaysRerun ==
  (RenderedEffect /\ NoDeps(lastRender.deps)) =>
    IF lastRender.key = "e" THEN lastRender.new.needsToRun /\ lastRender.queued
    ELSE lastRender.ran

\* The render passed a dependency list equal, element by element, to the
\* list the previous render stored.
SameDepsAsBefore ==
  /\ RenderedEffect
  /\ lastRender.old # NULL
  /\ lastRender.deps.t = "arr"
  /\ lastRender.old.dependencies = lastRender.deps

\* C9: a re-render with a dependency list deep-equal to the previous one
\* neither queues nor runs the callback, does not invoke the previous
\* cleanup, and carries that cleanup over to the new hook record.
C9_EqualDepsSkipEffect ==
  SameDepsAsBefore =>
    /\ ~lastRender.queued
    /\ ~lastRender.ran
    /\ lastRender.invoked = <<>>
    /\ lastRender.new.cleanup = lastRender.old.cleanup
    /\ lastRender.key = "e" => ~lastRender.new.needsToRun

\* useEffect re-rendered with the list [1] again, after the effect of the
\* previous render ran and returned a cleanup.
C9_Witness ==
  /\ SameDepsAsBefore
  /\ lastRender.key = "e"
  /\ lastRender.deps = Arr(<<Num(1)>>)
  /\ lastRender.old.cleanup # 0
  /\ lastRender.new.cleanup = lastRender.old.cleanup

\* C10: the box a re-render's useRef returns holds the value the box of the
\* previous render held, whatever initial value the re-render passes.
C10_RefPersists ==
  (lastRender # NULL /\ lastRender.kind = "ref" /\ lastRender.old # NULL) =>
    lastRender.new.current = lastRender.old.current

(***************************************************************************)
(* Claims about hook calls outside a render                                *)
(***************************************************************************)
\* C11: a hook called while no function component is rendering fails with a
\* HOOK error and changes no hook record.
C11_HookOutsideRenderFails ==
  lastHookCall # NULL => (lastHookCall.threw /\ ~lastHookCall.changed)

(***************************************************************************)
(* Claims about the work loop                                              *)
(***************************************************************************)
\* C12: after any sequence of events exactly one invocation of workLoop is
\* registered with the host: every invocation registers the next one.
C12_WorkLoopPerpetual == idleCallbacks = 1

\* The same committed root, whatever tag its child carries.
SameRoot(a, b) ==
  \/ a = b
  \/ a # NULL /\ b # NULL /\ [a EXCEPT !.child.effectTag = b.child.effectTag] = b

\* C13: a commit happens only for a work-in-progress root whose units are all
\* processed; after it currentRoot is that root, wipRoot and nextUnitOfWork
\* are null and the deletions list is empty; no handler leaves exhausted work
\* with a root still uncommitted, and currentRoot is replaced by no other step.
C13_CommitInstallsRoot ==
  [][ /\ lastCommit' # lastCommit =>
           /\ wipRoot # NULL
           /\ lastCommit'.root.priority = wipRoot.priority
           /\ lastCommit'.root.element = wipRoot.element
           /\ lastCommit'.root.child # NULL
           /\ currentRoot' = lastCommit'.root
           /\ wipRoot' = NULL
           /\ nextUnitOfWork' = "null"
           /\ deletions' = <<>>
      /\ lastCommit' = lastCommit => SameRoot(currentRoot', currentRoot)
      /\ nextUnitOfWork' = "null" => wipRoot' = NULL ]_vars

C13_Witness ==
  /\ lastCommit # NULL
  /\ Len(lastCommit.deletions) > 0
  /\ currentRoot = lastCommit.root
  /\ wipRoot = NULL /\ nextUnitOfWork = "null" /\ deletions = <<>>
\* What is reachable from currentRoot: the committed fiber's tag, its hooks
\* object and the hook records in it.
CommittedView ==
  IF currentRoot = NULL THEN NULL
  ELSE [effectTag |-> currentRoot.child.effectTag,
        hooks     |-> currentRoot.child.hooks,
        records   |-> hookMaps[currentRoot.child.hooks]]

\* C14: a step of the work loop that processes units without committing
\* changes nothing reachable from currentRoot, and the fiber of the
\* work-in-progress tree never holds the hooks object of the committed fiber.
C14_RenderLeavesCommittedTree ==
  /\ [][ ( /\ lastCommit' = lastCommit
           /\ lastHookCall' = lastHookCall
           /\ nextUnitOfWork = "root" /\ nextUnitOfWork' = "app" )
         => CommittedView' = CommittedView ]_vars
  /\ [](wipRoot # NULL /\ wipRoot.child # NULL /\ currentRoot # NULL
          => wipRoot.child.hooks # currentRoot.child.hooks)

\* A pass still in progress has tagged the committed fiber DELETION.
C14_TagMutated ==
  /\ currentRoot # NULL /\ wipRoot # NULL /\ wipRoot.child # NULL
  /\ currentRoot.child.effectTag = "DELETION"
  /\ lastCommit.root.child.effectTag # "DELETION"
\* A pass still in progress holds the hooks object of the committed fiber.
C14_Witness ==
  /\ currentRoot # NULL /\ wipRoot # NULL /\ wipRoot.child # NULL
  /\ wipRoot.child.effectTag = "UPDATE"
  /\ wipRoot.child.hooks = currentRoot.child.hooks

\* C17: the commit of a pass tears down every fiber the pass put on the
\* deletions list: each cleanup stored in its hook records is invoked and its
\* hooks are discarded.
C17_DeletionsTornDown ==
  lastCommit # NULL =>
    \A j \in 1..Len(lastCommit.deletions) :
      /\ Range(lastCommit.cleanups[j]) \subseteq Range(lastCommit.invoked)
      /\ lastCommit.deletions[j].hooks \in lastCommit.discarded

\* A commit whose deleted fiber held a cleanup closure.
C17_Witness ==
  /\ lastCommit # NULL
  /\ \E j \in 1..Len(lastCommit.deletions) : lastCommit.cleanups[j] # <<>>
\* q extends p at its end.
IsPrefix(p, q) == Len(p) <= Len(q) /\ SubSeq(q, 1, Len(p)) = p

\* A step in which a setter of the state hook was called.
SetterCalled ==
  \E m \in 1..Len(issued) : Len(issued'[m]) > Len(issued[m])

\* C19: a step in which a setter is called leaves the roots, the unit of
\* work, the deletions list and every hook's state as they were; the hook
\* records differ in their action queues only, which have grown at the end,
\* as has the batched update queue.
C19_SetterDefers ==
  [][ SetterCalled =>
        /\ wipRoot' = wipRoot /\ currentRoot' = currentRoot
        /\ nextUnitOfWork' = nextUnitOfWork
        /\ deletions' = deletions
        /\ renders' = renders
        /\ Len(hookMaps') = Len(hookMaps)
        /\ \A m \in 1..Len(hookMaps) : \A j \in 1..Len(HookKeys) :
             LET old == hookMaps[m][HookKeys[j]]
                 new == hookMaps'[m][HookKeys[j]]
             IN  IF old # NULL /\ "queue" \in DOMAIN old
                   THEN /\ new.state = old.state
                        /\ IsPrefix(old.queue, new.queue)
                        /\ [new EXCEPT !.queue = old.queue] = old
                   ELSE new = old
        /\ IsPrefix(updateQueue, updateQueue')
        /\ Len(updateQueue') > Len(updateQueue) ]_vars

\* A setter was called after a commit: an update is queued, no root is built.
C19_Witness ==
  /\ currentRoot # NULL /\ wipRoot = NULL
  /\ updateQueue # <<>>
  /\ \E m \in 1..Len(issued) : issued[m] # <<>>
\* The records of the stack registered by renders of boundary n, in any pass.
RecordsOf(n) == {i \in 1..Len(errorBoundaryStack) : errorBoundaryStack[i].fiber[2] = n}

\* C15: the stack holds at most one record for a boundary, however many
\* passes have rendered it, and one for each boundary the current pass has
\* rendered; so its length never exceeds the number of mounted boundaries.
C15_RegisteredOnce ==
  /\ \A n \in errBoundaries :
       /\ Cardinality(RecordsOf(n)) <= 1
       /\ errCursor > n => Cardinality(RecordsOf(n)) = 1
  /\ Len(errorBoundaryStack) <= Cardinality(errBoundaries)

\* A boundary has been rendered by two passes.
C15_Witness ==
  /\ errPass = 2
  /\ \E n \in errBoundaries : errCursor > n /\ RecordsOf(n) # {}
\* The stack without the records of the fibers in gone.
WithoutRecordsOf(stack, gone) == SelectSeq(stack, LAMBDA b : b.fiber \notin gone)

\* C16: the commit that tears boundaries down removes their records from the
\* stack and no other record; afterwards no record of a torn-down fiber is
\* on the stack and captureError selects no torn-down boundary.
C16_TeardownDeregisters ==
  /\ [][ errDeleted' # errDeleted =>
           errorBoundaryStack' = WithoutRecordsOf(errorBoundaryStack, errDeleted') ]_vars
  /\ [](\A i \in 1..Len(errorBoundaryStack) : errorBoundaryStack[i].fiber \notin errDeleted)
  /\ [](errOut # NULL /\ errOut.result => errOut.boundary \notin errOut.deleted)

\* After the teardown captureError has selected a torn-down boundary.
C16_Witness ==
  /\ errOut # NULL /\ errOut.result
  /\ errOut.boundary \in errOut.deleted
\* The unit after the subtree of node n in the order of the work loop: the
\* first later node that is not below n, 0 when there is none.
AfterSubtree(n) ==
  LET later == {m \in (n + 1)..Len(errTree) : m \notin Descendants(n)}
  IN  IF later = {} THEN 0 ELSE CHOOSE m \in later : \A k \in later : m <= k

\* C18: when the render of a component throws and a boundary captures the
\* error, the fiber is reconciled with an empty child list; captured or not,
\* the next unit is the fiber's sibling, else the first sibling up the parent
\* links, else none, the pass goes on from there and visits nothing below
\* the failing fiber.
C18_ThrowSkipsSubtree ==
  (errOut # NULL /\ errOut.thrown # "none") =>
    LET n == errOut.fiber[2]
    IN  /\ errOut.result => errOut.reconciled
        /\ errOut.next = AfterSubtree(n)
        /\ errPass = errOut.fiber[1] =>
             /\ errCursor \notin Descendants(n) \cup {n}
             /\ errCursor >= (IF errOut.next = 0 THEN Len(errTree) + 1 ELSE errOut.next)

\* The same for components that throw an Error object.
C18_ErrorSkipsSubtree ==
  (errOut # NULL /\ errOut.thrown = "error") => C18_ThrowSkipsSubtree

\* A component threw null inside a boundary and the pass went on to its
\* sibling.
C18_Witness ==
  /\ errOut # NULL /\ errOut.thrown = "nullish" /\ errOut.result
  /\ errOut.next # 0
  /\ errPass = errOut.fiber[1] /\ errCursor > errOut.next

\* A component with a child threw an Error inside a boundary and the pass
\* ended without a visit to the child.
C18_SubtreeSkipped ==
  /\ errOut # NULL /\ errOut.thrown = "error" /\ errOut.result /\ errOut.reconciled
  /\ Descendants(errOut.fiber[2]) # {}
  /\ errPass = errOut.fiber[1] /\ errCursor > Len(errTree)
\* C20: flushEffects runs no effect whose pass has not committed, and the
\* render of a plain effect hook does not run its callback; a layout or
\* insertion effect is never queued: when it runs, it runs in the hook call.
C20_EffectsAfterCommit ==
  /\ lastEffects # NULL => lastEffects.early = <<>>
  /\ (appKind = "effect" /\ lastRender # NULL) => ~lastRender.ran
  /\ appKind \in {"layout", "insertion"} =>
       /\ effectQueue = <<>>
       /\ lastRender # NULL => ~lastRender.queued

\* The timer of an earlier commit ran the effect of a pass still in progress.
C20_Witness ==
  /\ lastEffects # NULL /\ lastEffects.early # <<>>
  /\ wipRoot # NULL /\ nextUnitOfWork = "child"
  /\ wipRoot.child.rendered \in Range(lastEffects.early)

\* The effect of an abandoned pass ran.
C20_AbandonedRan ==
  /\ lastEffects # NULL /\ lastEffects.early # <<>>
  /\ wipRoot = NULL /\ currentRoot # NULL
  /\ currentRoot.child.rendered \notin Range(lastEffects.early)

(***************************************************************************)
(* Claims about the cleanup of a plain effect                              *)
(***************************************************************************)
\* The last execution of App ran useEffect.
RenderedPlainEffect == RenderedEffect /\ lastRender.key = "e"

\* No callback ran while the cleanup its previous run returned was owed.
C21_NoRunUncleaned == lastEffects # NULL => lastEffects.uncleaned = <<>>

\* A flagged render invokes the cleanup the previous run returned.
C21_FlaggedInvokesOwed ==
  (RenderedPlainEffect /\ lastRender.new.needsToRun /\ lastRender.owed # 0)
    => lastRender.invoked = <<lastRender.owed>>

\* A cleanup that throws is offered to captureError and the render goes on.
C21_CleanupThrowContained ==
  (RenderedPlainEffect /\ lastRender.threw # "none")
    => (lastRender.offered /\ ~lastRender.aborted)

\* C21: when useEffect is flagged because its dependencies changed, the
\* cleanup returned by the previous run of the effect is invoked before the
\* new callback runs; a cleanup that throws is offered to captureError and
\* does not abort the render of the component (every hook call being made
\* by a render).
C21_CleanupBeforeRerun ==
  lastHookCall = NULL =>
    /\ C21_NoRunUncleaned
    /\ C21_FlaggedInvokesOwed
    /\ C21_CleanupThrowContained

\* Two renders flagged the effect before the effect timer fired: the second
\* callback ran although the cleanup the first had just returned was owed.
C21_Witness ==
  /\ lastHookCall = NULL
  /\ lastEffects # NULL /\ lastEffects.uncleaned # <<>>
  /\ RenderedPlainEffect /\ lastRender.old # NULL /\ lastRender.new.needsToRun

\* A cleanup threw null and the render of the component was aborted.
C21_RenderAborted ==
  /\ lastHookCall = NULL
  /\ RenderedPlainEffect /\ lastRender.threw = "nullish" /\ lastRender.aborted
  /\ currentRoot # NULL /\ wipRoot = NULL
  /\ hookMaps[lastRender.map]["e"] = lastRender.old

(***************************************************************************)
(* Claims about the transition hook                                        *)
(***************************************************************************)
\* The transitions in flight that were started through the transition hook
\* of hooks object m: their timers have not fired.
InFlight(m) ==
  {j \in 1..Len(transitionTimers) : transitions[transitionTimers[j]].map = m}

\* The pending flag of hooks object m once the setter calls made so far are
\* applied: the value of the last call, else the stored state.
PendingFlag(m) ==
  LET hook == hookMaps[m]["tp"]
  IN  IF hook.queue # <<>> THEN hook.queue[Len(hook.queue)].value ELSE hook.state

\* C22: while a transition started through a transition hook is in flight,
\* the pending flag of that hook is true, whichever render's startTransition
\* started it: the flag flips to false only when none is in flight.
C22_PendingUntilLastDone ==
  \A m \in 1..Len(hookMaps) :
    (hookMaps[m]["tp"] # NULL /\ InFlight(m) # {}) => PendingFlag(m) = TRUE

\* The startTransition closures handed out by the renders of hooks object m.
ClosuresOf(m) == {c \in 1..Len(transitions) : transitions[c].map = m}

\* The same while one render only has handed out a startTransition.
C22_OneClosure ==
  \A m \in 1..Len(hookMaps) :
    (hookMaps[m]["tp"] # NULL /\ Cardinality(ClosuresOf(m)) = 1 /\ InFlight(m) # {})
      => PendingFlag(m) = TRUE

\* Of two transitions started through one closure, the first has completed.
C22_SameClosureOverlap ==
  \E m \in 1..Len(hookMaps) :
    /\ Cardinality(ClosuresOf(m)) = 1
    /\ \E c \in ClosuresOf(m) : transitions[c].pendingTransitions = 1
    /\ Len(transitionTimers) = 1
    /\ hookMaps[m]["tp"].queue = <<SetTo(TRUE), SetTo(TRUE)>>

\* Two renders handed out two startTransition closures, a transition was
\* started through each, and the first to complete has set the flag false
\* while the other is in flight.
C22_Witness ==
  \E m \in 1..Len(hookMaps) :
    /\ hookMaps[m]["tp"] # NULL
    /\ InFlight(m) # {}
    /\ PendingFlag(m) = FALSE
    /\ \E c1, c2 \in 1..Len(transitions) :
         c1 # c2 /\ transitions[c1].map = m /\ transitions[c2].map = m

(***************************************************************************)
(* Claims about use                                                        *)
(***************************************************************************)
\* The status of the record a call found at its call site.
StatusBefore == IF useOut.before = NULL THEN "none" ELSE useOut.before.status

\* The outcomes of a call that the thenable it passes decides: the thenable
\* itself is thrown while it is pending, and also when it has settled but
\* the hook cannot know yet (it is new at the call site, or its callbacks
\* have not run); its value is returned once it is fulfilled, its reason is
\* thrown once it is rejected.
DecidedByThenable ==
  LET promise == useOut.promise
      unaware == useOut.waiting \/ useOut.before = NULL \/ useOut.before.promise # promise
      thrown  == [outcome |-> "threw thenable", value |-> promise]
  IN  IF useOut.settled = "pending" THEN {thrown}
      ELSE IF useOut.settled = "fulfilled"
        THEN {[outcome |-> "returned", value |-> ResolvedValue(promise)]}
               \cup (IF unaware THEN {thrown} ELSE {})
      ELSE {[outcome |-> "threw reason", value |-> Reason(promise)]}
             \cup (IF unaware THEN {thrown} ELSE {})

\* The outcomes the three-state machine allows for the last call.
AllowedOutcomes ==
  IF StatusBefore = "fulfilled"
    THEN {[outcome |-> "returned", value |-> useOut.before.value]}
  ELSE IF StatusBefore = "rejected" /\ useOut.before.promise = useOut.promise
    THEN {[outcome |-> "threw reason", value |-> useOut.before.reason]}
  ELSE DecidedByThenable

\* C23: a call of use throws the thenable it is given while that thenable
\* is pending, returns the resolved value in every render after the
\* fulfilment, rethrows the reason in every render after the rejection as
\* long as the same thenable is passed, and follows the new thenable once a
\* different one is passed.
C23_UseThreeStates ==
  useOut # NULL =>
    [outcome |-> useOut.outcome, value |-> useOut.value] \in AllowedOutcomes

\* The first call at a call site, with a pending thenable and no boundary
\* around the component, threw a HOOK error.
C23_Witness ==
  /\ useOut # NULL /\ useOut.before = NULL /\ useOut.settled = "pending"
  /\ useOut.outcome = "threw HOOK error"
  /\ useHook = NULL

\* After a rejection a different, pending thenable was passed and the old
\* reason was thrown again.
C23_RejectionSticks ==
  /\ useOut # NULL /\ StatusBefore = "rejected"
  /\ useOut.before.promise # useOut.promise /\ useOut.settled = "pending"
  /\ useOut.outcome = "threw reason" /\ useOut.value = useOut.before.reason

\* A call found the record fulfilled and returned its value.
C23_FulfilledReturns ==
  /\ useOut # NULL /\ StatusBefore = "fulfilled"
  /\ useOut.outcome = "returned" /\ useOut.value = ResolvedValue(useOut.before.promise)

\* The part of the claim that the code keeps: a record found fulfilled, or
\* found rejected by the thenable passed again, decides the outcome.
C23_SettledRecordDecides ==
  (useOut # NULL /\ (StatusBefore = "fulfilled"
                       \/ (StatusBefore = "rejected" /\ useOut.before.promise = useOut.promise)))
    => [outcome |-> useOut.outcome, value |-> useOut.value] \in AllowedOutcomes

(***************************************************************************)
(* Claims about useMemo and useCallback                                    *)
(***************************************************************************)
\* Two dependency lists differ under element-wise deep equality.
ListsDiffer(deps, old) ==
  \/ Len(deps.es) # Len(old.es)
  \/ \E i \in 1..Len(deps.es) : ~deepEqual(deps.es[i], old.es[i])

\* The render has to call the factory: no previous record, no list now or
\* then, or lists that differ.
MustRecompute ==
  \/ memoOut.old = NULL
  \/ IsNullish(memoOut.deps)
  \/ IsNullish(memoOut.old.deps)
  \/ ListsDiffer(memoOut.deps, memoOut.old.deps)

\* C24: useMemo and useCallback call the factory exactly when there is no
\* previous record at the key, or the current or the previous dependency
\* list is null, or the lists differ under element-wise deep equality;
\* otherwise they return the value of the previous render.
C24_MemoRecomputesIffChanged ==
  memoOut # NULL =>
    /\ memoOut.called <=> MustRecompute
    /\ ~MustRecompute =>
         /\ memoOut.outcome = "returned"
         /\ memoOut.value = memoOut.old.value
         /\ memoHook.value = memoOut.old.value

\* A re-render passed a list with a nested array equal to the previous
\* one's and got the value of the previous render; an earlier render had
\* recomputed.
C24_Witness ==
  /\ memoOut # NULL /\ memoOut.old # NULL
  /\ memoOut.deps = Arr(<<Arr(<<Num(1)>>)>>)
  /\ memoOut.old.deps = memoOut.deps
  /\ ~memoOut.called
  /\ memoOut.value = memoOut.old.value /\ memoOut.value = 2

(***************************************************************************)
(* Claims about the generated hook keys                                    *)
(***************************************************************************)
\* C25: the counter of the fiber is zero (or not yet there) when the render
\* of a component starts; the keys generated within one render are distinct;
\* and as far as a render makes the same hook calls as the previous render
\* of the component, it generates the same keys.
C25_KeysDeterministic ==
  /\ (keyRendering /\ keyCalls = <<>>) => componentHookCounters[keyFiber] \in {-1, 0}
  /\ \A i, j \in 1..Len(keyKeys) : keyKeys[i] = keyKeys[j] => i = j
  /\ keyPrev # NULL =>
       \A i \in 1..Len(keyCalls) :
         (i <= Len(keyPrev.calls) /\ \A j \in 1..i : keyCalls[j] = keyPrev.calls[j])
           => keyKeys[i] = keyPrev.keys[i]

\* Two renders made the same two hook calls and generated the same keys,
\* with a hook call outside a render in between.
C25_Witness ==
  /\ keyPrev # NULL
  /\ Len(keyCalls) = 2 /\ keyCalls = keyPrev.calls /\ keyKeys = keyPrev.keys
  /\ keyCalls[1].name # keyCalls[2].name
  /\ keyFiber > 1 /\ componentHookCounters[keyFiber - 1] = 3

\* C26: the ErrorBoundary follows the machine no-error -> (captureError's
\* update) -> has-error -> (children prop changes) -> no-error: a render
\* returns the fallback exactly when the machine is in has-error; a render
\* in has-error whose children are deep-equal to the previous render's
\* leaves the boundary there (it queues no reset); a render in has-error
\* whose children changed queues the reset that takes it back to no-error.
C26_BoundaryMachine ==
  ebRender # NULL =>
    /\ (ebRender.returned = "fallback") = (ebRender.machine = "has-error")
    /\ (ebRender.returned = "children") = (ebRender.machine = "no-error")
    /\ ebRender.machine = "has-error" /\ ~ebRender.changed => ~ebRender.queuedReset
    /\ ebRender.machine = "has-error" /\ ebRender.changed => ebRender.queuedReset

\* The boundary showed the fallback, its children changed, and it renders
\* its children again.
C26_Witness ==
  /\ ebRender # NULL
  /\ ebRender.returned = "children" /\ ebRender.prevReturned = "fallback"
  /\ ebRender.machine = "no-error" /\ ~ebRender.mount

\* A render in has-error with deep-equal children stays in has-error.
C26_StaysWitness ==
  /\ ebRender # NULL
  /\ ebRender.returned = "fallback" /\ ebRender.prevReturned = "fallback"
  /\ ~ebRender.changed

\* C27: a call of captureError that returns true has invoked the onError of
\* the selected boundary once (when the boundary has one), whether onError
\* returned or threw, has armed the timer for that boundary and has called
\* no setter; the setters of a boundary are called only by the timer armed
\* for it, in a later step.
C27_CaptureIsAsynchronous ==
  [][/\ (errOut = NULL /\ errOut' # NULL /\ errOut'.result) =>
          /\ errShown' = errShown
          /\ errTimers' = Append(errTimers, errOut'.boundary)
          /\ errOnError' = IF errOut'.onError = "absent" THEN errOnError
                           ELSE Append(errOnError, errOut'.boundary)
     /\ errShown' # errShown =>
          /\ errTimers # <<>>
          /\ errShown' = errShown \cup {Head(errTimers)}
          /\ errTimers' = Tail(errTimers)
          /\ errOut' = errOut]_vars

\* captureError returned true although onError threw; the timer is armed and
\* the boundary's state is untouched.
C27_Witness ==
  /\ errOut # NULL /\ errOut.result /\ errOut.onError = "throws"
  /\ errTimers = <<errOut.boundary>> /\ errOnError = <<errOut.boundary>>
  /\ errShown = {}

\* The timer has fired: the boundary's setters were called after the call.
C27_LaterWitness ==
  /\ errOut # NULL /\ errOut.result /\ errTimers = <<>> /\ errShown = {errOut.boundary}

\* The children of fiber n, in the order of the elements they were made from.
RECURSIVE ChildrenFrom(_, _)
ChildrenFrom(n, m) ==
  IF m > Len(errTree) THEN <<>>
  ELSE (IF errTree[m] = n THEN <<m>> ELSE <<>>) \o ChildrenFrom(n, m + 1)

\* The depth-first pre-order of the subtree of fiber n: the fiber, then the
\* pre-orders of its children, one child after the other.
RECURSIVE PreOrderFrom(_), PreOrderOfAll(_)
PreOrderFrom(n) == <<n>> \o PreOrderOfAll(ChildrenFrom(n, 1))

PreOrderOfAll(ns) ==
  IF ns = <<>> THEN <<>> ELSE PreOrderFrom(Head(ns)) \o PreOrderOfAll(Tail(ns))

\* C29: while no component has thrown, every step of the work loop goes from
\* a fiber to the fiber that follows it in the depth-first pre-order of the
\* work-in-progress tree, and from the last fiber of that order to no unit;
\* the order holds every fiber of the tree once.
C29_PreOrderTraversal ==
  [][(errOut = NULL /\ errOut' = NULL /\ errPass' = errPass /\ errCursor' # errCursor) =>
       LET order == PreOrderFrom(1)
       IN  /\ Len(order) = Len(errTree)
           /\ {order[i] : i \in 1..Len(order)} = 1..Len(errTree)
           /\ \E i \in 1..Len(order) :
                /\ order[i] = errCursor
                /\ errCursor' = IF i = Len(order) THEN Len(errTree) + 1 ELSE order[i + 1]]_vars

\* A pass has ended without an error, and the
\* walk had to climb from a fiber without sibling to the sibling of an
\* ancestor.
C29_Witness ==
  /\ errOut = NULL /\ errCursor = Len(errTree) + 1
  /\ \E n \in 1..Len(errTree) :
       Sibling(n) = 0 /\ FiberChild(n, TRUE) = 0 /\ SiblingOrUncle(n) # 0

\* The fibers reconcileChildren is to create: one for every entry of the
\* list that is an element.
NonFalsy(elems) == SelectSeq(elems, LAMBDA e : ~IsFalsy(e))

\* C28: after reconcileChildren, the fibers made for the non-falsy entries
\* of the element list, in the order of the list, are exactly the chain
\* that starts at parentFiber.child and follows the sibling links.
C28_AllFibersChained ==
  recPc = "reconciled" =>
    /\ Len(newFibers) = Len(NonFalsy(elements))
    /\ Chain(newFibers, child) = [j \in 1..Len(newFibers) |-> j]
    /\ \A j \in 1..Len(newFibers) :
         /\ newFibers[j].type = NonFalsy(elements)[j].type
         /\ \A k \in 1..Len(newFibers) : j < k => newFibers[j].index < newFibers[k].index

\* A list whose first entry is falsy and which holds an element was
\* reconciled.
C28_Witness ==
  /\ recPc = "reconciled" /\ Len(elements) >= 2
  /\ IsFalsy(elements[1]) /\ ~IsFalsy(elements[2])
  /\ newFibers # <<>> /\ child = 0

\* With an element in the first position the chain holds every fiber.
C28_ChainedWhenFirstIsElement ==
  (recPc = "reconciled" /\ elements # <<>> /\ ~IsFalsy(elements[1])) =>
    Chain(newFibers, child) = [j \in 1..Len(newFibers) |-> j]

\* The child of the App fiber that the last commit replaced, as the
\* deletions list holds it.
OldAppChild == [lastCommit.replaced.child.child EXCEPT !.effectTag = "DELETION"]

\* The last commit was of a re-render of App that returned what, over a
\* committed App fiber with a child.
ReRendered(what) ==
  /\ lastCommit # NULL /\ lastCommit.replaced # NULL
  /\ lastCommit.replaced.child.child # NULL
  /\ lastCommit.root.child.effectTag = "UPDATE"
  /\ lastCommit.root.child.returned = what

\* C30: when a re-render of the component returns undefined while the
\* committed fiber of the component has a child, the pass tags that child
\* DELETION and pushes it on the deletions list its commit works through,
\* as a re-render that returns an empty list does.
C30_UndefinedDeletesChildren ==
  (ReRendered("undefined") \/ ReRendered("empty")) =>
    /\ \E j \in 1..Len(lastCommit.deletions) : lastCommit.deletions[j] = OldAppChild
    /\ lastCommit.root.child.child = NULL

\* The same for a re-render that returns an empty list only.
C30_EmptyDeletesChildren ==
  ReRendered("empty") =>
    /\ \E j \in 1..Len(lastCommit.deletions) : lastCommit.deletions[j] = OldAppChild
    /\ lastCommit.root.child.child = NULL

\* A re-render that returned undefined over a committed child was committed
\* with nothing deleted.
C30_Witness == ReRendered("undefined") /\ lastCommit.deletions = <<>>

\* A re-render that returned an empty list over a committed child.
C30_EmptyWitness == ReRendered("empty") /\ lastCommit.deletions # <<>>

(***************************************************************************)
(* Claims about superseded roots and the work loop                         *)
(***************************************************************************)
\* The roots constructed are numbered 1, 2, ...: roots is the number of the
\* newest, which is the one in progress if any is.
\* C31: a root constructed by render or by a flushed update while another
\* is in progress replaces it: the units of work restart at the new root,
\* the new root's alternate is the committed root, the deletions list is
\* empty; and every commit installs the newest root constructed, so a root
\* that was replaced is never committed.
C31_NewRootSupersedes ==
  [][/\ (wipRoot # NULL /\ wipRoot' # NULL /\ wipRoot'.id # wipRoot.id) =>
          /\ wipRoot'.id = roots' /\ roots' > roots
          /\ nextUnitOfWork' = "root"
          /\ wipRoot'.child = NULL
          /\ wipRoot'.alternate = IF currentRoot' = NULL THEN NULL
                                  ELSE [child |-> currentRoot'.child]
          /\ deletions' = <<>>
          /\ lastCommit' = lastCommit
     /\ lastCommit' # lastCommit =>
          /\ wipRoot # NULL /\ lastCommit'.rootId = wipRoot.id /\ wipRoot.id = roots
          /\ currentRoot' = lastCommit'.root
          /\ lastCommit'.root.element = wipRoot.element
          /\ roots' = roots]_vars

\* The first root was replaced after its unit of work had made the App
\* fiber (with the first hooks object), and the first commit installed the
\* second root.
C31_Witness ==
  /\ lastCommit # NULL /\ lastCommit.rootId = 2 /\ lastCommit.replaced = NULL
  /\ Len(hookMaps) = 2 /\ currentRoot = lastCommit.root

\* A flushed update replaced a root in progress.
C31_FlushWitness ==
  /\ lastFlush # NULL /\ lastFlush.built > 0 /\ wipRoot # NULL /\ wipRoot.id = roots
  /\ lastCommit # NULL /\ lastCommit.rootId < roots - 1

\* C32: an invocation of workLoop in which performUnitOfWork throws an error
\* no boundary captures (the one step that uses up an idle callback) leaves
\* no unit of work and no root in progress, commits nothing and leaves the
\* committed root as it was.
C32_ErrorAbortsUpdate ==
  [][idleCallbacks' < idleCallbacks =>
       /\ nextUnitOfWork # "null"
       /\ nextUnitOfWork' = "null" /\ wipRoot' = NULL
       /\ lastCommit' = lastCommit
       /\ currentRoot' = currentRoot
       /\ roots' = roots]_vars

\* An update over a committed root was aborted: the newest root constructed
\* is neither in progress nor committed.
C32_Witness ==
  /\ idleCallbacks = 0 /\ wipRoot = NULL /\ nextUnitOfWork = "null"
  /\ currentRoot # NULL /\ lastCommit # NULL /\ lastCommit.rootId < roots
  /\ currentRoot = lastCommit.root

\* The thresholds by priority, highest priority first.
SliceTable == <<<<IMMEDIATE, 16>>, <<NORMAL, 5>>, <<LOW, 2>>, <<IDLE, 1>>>>
SliceOf(priority) ==
  LET p == IF priority = 0 THEN NORMAL ELSE priority
  IN  SliceTable[CHOOSE j \in 1..Len(SliceTable) : SliceTable[j][1] = p][2]

\* C33: an invocation of workLoop does the units one after the other, reads
\* timeRemaining() once after each unit done and never otherwise, goes on
\* while units are left and every value read is at least the threshold of
\* the root's priority (16, 5, 2, 1 for IMMEDIATE, NORMAL, LOW, IDLE; that
\* of NORMAL for a root without priority), and stops at the first value
\* below it; the thresholds decrease strictly in that order.
C33_SliceThresholds ==
  /\ \A j \in 1..(Len(SliceTable) - 1) : SliceTable[j][2] > SliceTable[j + 1][2]
  /\ loopOut # NULL =>
       LET slice == SliceOf(loopOut.priority)
       IN  /\ Len(loopOut.read) = loopOut.done
           /\ loopOut.done <= loopOut.pending
           /\ loopOut.pending > 0 => loopOut.done >= 1
           /\ \A k \in 1..(loopOut.done - 1) : loopOut.read[k] >= slice
           /\ loopOut.done < loopOut.pending => loopOut.read[loopOut.done] < slice

\* An invocation for a root without priority stopped, units left, on
\* reading 3: below the threshold of NORMAL, not below that of LOW.
C33_Witness ==
  /\ loopOut # NULL /\ loopOut.rooted /\ loopOut.priority = 0
  /\ loopOut.read = <<3>> /\ loopOut.pending = MaxLoopUnits /\ loopOut.done = 1

\* An IMMEDIATE root stopped on reading 10.
C33_ImmediateWitness ==
  /\ loopOut # NULL /\ loopOut.priority = IMMEDIATE
  /\ loopOut.read = <<10>> /\ loopOut.pending > 1

\* C36: with the host invoking workLoop again and again and no unit
\* throwing, an invocation that finds units left does at least one of them,
\* whatever timeRemaining() returns, and a root in progress leads to a state
\* in which no root is in progress and the newest root constructed is the
\* committed one.
C36_EventuallyCommitted ==
  /\ [](loopOut # NULL /\ loopOut.pending > 0 => loopOut.done >= 1)
  /\ [](loopOut # NULL /\ loopOut.committed => loopOut.done = loopOut.pending)
  /\ (loopRoot # NULL) ~> (loopRoot = NULL /\ loopCurrent = loopScheduled)

\* The newest root was committed by an invocation that read 0 after the one
\* unit that was left.
C36_Witness ==
  /\ loopOut # NULL /\ loopOut.committed /\ loopOut.read = <<0>>
  /\ loopOut.pending = 1 /\ loopRoot = NULL /\ loopCurrent = loopScheduled
  /\ loopCurrent = MaxLoopRoots

\* The units an invocation would do for a root of priority q with the same
\* units pending, over a deadline whose first readings are those consumed.
DoneAt(q, deadline) == unitsDone(loopOut.pending, timeSlice(q), deadline, 0)
SameReadings ==
  {deadline \in [1..loopOut.pending -> ReadingValues] :
     SubSeq(deadline, 1, loopOut.done) = loopOut.read}

\* C39: over the same readings of timeRemaining() and the same units
\* pending, a root of higher priority never does fewer units in one
\* invocation of workLoop than a root of lower priority would.
C39_PriorityMonotone ==
  loopOut # NULL /\ loopOut.rooted /\ loopOut.priority # 0 =>
    \A q \in LoopPriorities \ {0} :
      q > loopOut.priority =>
        \A deadline \in SameReadings : DoneAt(q, deadline) <= loopOut.done

\* An IMMEDIATE root stopped after one unit of two on reading 10, over which
\* an IDLE root does both.
C39_Witness ==
  /\ loopOut # NULL /\ loopOut.rooted /\ loopOut.priority = IMMEDIATE
  /\ loopOut.pending = 2 /\ loopOut.done = 1 /\ loopOut.read = <<10>>
  /\ \E deadline \in SameReadings : DoneAt(IDLE, deadline) = 2

\* The order the thresholds give: over the same readings a root of lower
\* priority never does fewer units than a root of higher priority.
C39_LowerNeverFewer ==
  loopOut # NULL /\ loopOut.rooted /\ loopOut.priority # 0 =>
    \A q \in LoopPriorities \ {0} :
      q > loopOut.priority =>
        \A deadline \in SameReadings : DoneAt(q, deadline) >= loopOut.done

(***************************************************************************)
(* Claims about the lifetime of a cleanup closure                          *)
(***************************************************************************)
\* C34: a cleanup closure an effect callback returned is invoked at most
\* once: a render flagged by changed dependencies never invokes a closure
\* that was invoked before, also when the callback that ran in between
\* returned no cleanup, and neither does the deletion of the fiber (every
\* hook call being made by a render).
C34_CleanupAtMostOnce ==
  lastHookCall = NULL =>
    /\ RenderedPlainEffect => ~lastRender.again
    /\ lastCommit # NULL => lastCommit.again = {}

\* One closure was ever returned; a flagged render invoked it, the callback
\* queued by that render ran and returned nothing, and the next flagged
\* render invoked the closure again.
C34_Witness ==
  /\ lastHookCall = NULL /\ RenderedPlainEffect /\ lastRender.again
  /\ closures = 1 /\ spent = {1} /\ lastRender.invoked = <<1>>
  /\ lastRender.old.hasRun /\ ~lastRender.old.callback
  /\ lastRender.threw = "none"

\* A render flagged the effect and found no closure to invoke, or one that
\* had not been invoked: the case of a callback that returned a cleanup.
C34_FirstInvocation ==
  /\ lastHookCall = NULL /\ RenderedPlainEffect /\ ~lastRender.again
  /\ lastRender.invoked # <<>> /\ lastRender.old.callback /\ lastRender.old.hasRun

\* The closure the last run of the effect of hooks object m returned, not
\* invoked since, is the cleanup of the record the next render will read.
StoredForNextRender(m) ==
  owed[m] # 0 => (hookMaps[m]["e"] # NULL /\ hookMaps[m]["e"].cleanup = owed[m])

\* C35: the cleanup closure an effect callback returns is not lost: it is
\* the cleanup of the hook record the next render reads as the previous
\* hook, also when the component was rendered again between the commit and
\* the effect timer, and the next render flagged by changed dependencies
\* invokes it (every hook call being made by a render).
C35_CleanupNeverLost ==
  lastHookCall = NULL =>
    /\ \A m \in DOMAIN owed : StoredForNextRender(m)
    /\ (RenderedPlainEffect /\ lastRender.new.needsToRun /\ lastRender.owed # 0)
         => lastRender.owed \in Range(lastRender.invoked)

\* A committed effect ran and returned a closure after a later render had
\* replaced its record; the next flagged render read a record without
\* cleanup and invoked nothing.
C35_Witness ==
  /\ lastHookCall = NULL
  /\ lastEffects # NULL /\ lastEffects.early = <<>> /\ lastEffects.uncleaned = <<>>
  /\ RenderedPlainEffect /\ lastRender.new.needsToRun /\ lastRender.owed # 0
  /\ lastRender.old # NULL /\ lastRender.old.cleanup = 0 /\ lastRender.invoked = <<>>

\* Without a render between the commit and the effect timer the closure is
\* on the record the next render reads.
C35_StoredWitness ==
  /\ lastHookCall = NULL /\ lastEffects # NULL /\ lastEffects.early = <<>>
  /\ \E m \in DOMAIN owed : owed[m] # 0 /\ StoredForNextRender(m)
  /\ renders = 1

(***************************************************************************)
(* Claims about the old children of a reconciled parent                    *)
(***************************************************************************)
\* No two children of the committed chain carry one key.
DistinctOldKeys ==
  \A j, k \in 1..Len(oldChildren) : j # k => oldChildren[j].key # oldChildren[k].key

\* The old child j is the alternate of n new fibers.
ReusedBy(j) == Cardinality({f \in 1..Len(newFibers) : newFibers[f].alternate = j})

\* The old child j is on the deletions list n times.
DeletedTimes(j) == Cardinality({d \in 1..Len(deletions) : deletions[d] = j})

\* C37: when a pass that had tagged committed fibers DELETION was replaced
\* by a new root, which resets the deletions list, the deletions list of
\* the pass that reconciles next holds every old child that no new fiber
\* reuses: those whose key met an element of another type and those no
\* element asked for (the old children carrying distinct keys).
C37_DeletionsSurvive ==
  (recPc = "reconciled" /\ DistinctOldKeys) =>
    \A j \in 1..Len(oldChildren) : ReusedBy(j) = 0 => DeletedTimes(j) >= 1

\* An old child tagged by an abandoned pass met an element of its key and
\* of another type in the next pass, and is not on the deletions list.
C37_Witness ==
  /\ recPc = "reconciled" /\ DistinctOldKeys
  /\ \E j \in 1..Len(oldChildren) :
       /\ oldChildren[j].effectTag = "DELETION" /\ ReusedBy(j) = 0 /\ DeletedTimes(j) = 0
       /\ \E f \in 1..Len(newFibers) :
            /\ newFibers[f].key = oldChildren[j].key
            /\ newFibers[f].type # oldChildren[j].type
            /\ newFibers[f].effectTag = "PLACEMENT"

\* An old child tagged by an abandoned pass that no element of the next
\* pass asks for is put on the deletions list again.
C37_LeftoverWitness ==
  /\ recPc = "reconciled" /\ DistinctOldKeys /\ Len(oldChildren) = 2
  /\ elements = <<>> /\ deletions = <<1, 2>>
  /\ oldChildren[1].effectTag = "DELETION"

\* No old child carries the tag of an abandoned pass: a tagged old child
\* is on the deletions list.
NoStaleTag ==
  \A j \in 1..Len(oldChildren) :
    oldChildren[j].effectTag = "DELETION" => DeletedTimes(j) >= 1

\* The old child j is the alternate of one UPDATE fiber and not deleted, or
\* is tagged DELETION and once on the deletions list.
Accounted(j) ==
  \/ /\ ReusedBy(j) = 1 /\ Reused(j) /\ DeletedTimes(j) = 0
  \/ /\ ReusedBy(j) = 0 /\ oldChildren[j].effectTag = "DELETION" /\ DeletedTimes(j) = 1

\* C40: after reconcileChildren every old child is either the alternate of
\* exactly one new UPDATE fiber or tagged DELETION and exactly once on the
\* deletions list, also when old children or new elements share a key (the
\* tags of an abandoned pass aside).
C40_OldChildrenAccounted ==
  (recPc = "reconciled" /\ NoStaleTag) => \A j \in 1..Len(oldChildren) : Accounted(j)

\* Two old children carry one key: the first is neither reused nor tagged
\* nor on the deletions list, while the element list asks for the key.
C40_Witness ==
  /\ recPc = "reconciled" /\ NoStaleTag /\ Len(oldChildren) = 2
  /\ oldChildren[1].key = oldChildren[2].key
  /\ ReusedBy(1) = 0 /\ oldChildren[1].effectTag # "DELETION" /\ DeletedTimes(1) = 0
  /\ Reused(2)

\* With distinct keys on the old chain every old child is accounted for,
\* whatever keys the new elements share.
C40_DistinctKeysAccounted ==
  (recPc = "reconciled" /\ NoStaleTag /\ DistinctOldKeys)
    => \A j \in 1..Len(oldChildren) : Accounted(j)

\* Two new elements share a key that one old child carries.
C40_SharedNewKeyWitness ==
  /\ recPc = "reconciled" /\ NoStaleTag /\ DistinctOldKeys
  /\ Len(elements) = 2 /\ elements[1] = elements[2] /\ elements[1].key \in ExplicitKeys
  /\ \E j \in 1..Len(oldChildren) : oldChildren[j].key = elements[1].key /\ Reused(j)

(***************************************************************************)
(* Claims about the actions a setter queues                                *)
(***************************************************************************)
\* The pass in progress has still to run the body of App on hooks object m.
WillRender(m) ==
  /\ wipRoot # NULL
  /\ \/ /\ nextUnitOfWork = "root"
        /\ wipRoot.alternate # NULL /\ wipRoot.alternate.child.hooks = m
     \/ /\ nextUnitOfWork = "app" /\ wipRoot.child.hooks = m

\* The hooks objects of the component of the committed tree and of the
\* tree in progress (an abandoned pass leaves its hooks object to no fiber).
LiveMaps ==
  (IF currentRoot # NULL /\ currentRoot.child # NULL THEN {currentRoot.child.hooks} ELSE {})
    \cup (IF wipRoot # NULL /\ wipRoot.child # NULL THEN {wipRoot.child.hooks} ELSE {})

\* Every state hook of a component that holds queued actions is about to be
\* rendered.
QueuedWillBeFolded ==
  \A m \in LiveMaps :
    (hookMaps[m]["k"] # NULL /\ hookMaps[m]["k"].queue # <<>>) => WillRender(m)

\* C38: once the batch of a setter call has been flushed, a root is in
\* progress whose render of the component will fold the queued actions into
\* the state of the hook, also when the setter was called before the first
\* commit, while currentRoot is null.
C38_FlushedActionFolded ==
  [][(batchingTimeout /\ ~batchingTimeout') => QueuedWillBeFolded']_vars

\* The setter was called while the first pass had run App and not yet its
\* child; the flush constructed no root, and the pass in progress is past
\* the render that would have folded the action.
C38_Witness ==
  /\ currentRoot = NULL /\ ~batchingTimeout
  /\ lastFlush # NULL /\ lastFlush.updates # <<>> /\ lastFlush.built = 0
  /\ wipRoot # NULL /\ nextUnitOfWork = "child"
  /\ hookMaps[wipRoot.child.hooks]["k"].queue # <<>>

\* The claim for a setter called over a committed root.
C38_FoldedOverCommittedRoot ==
  [][(batchingTimeout /\ ~batchingTimeout' /\ currentRoot # NULL)
       => QueuedWillBeFolded']_vars

\* A flush over a committed root constructed a root that superseded a pass
\* past the render of App.
C38_CommittedWitness ==
  /\ currentRoot # NULL /\ ~batchingTimeout
  /\ lastFlush # NULL /\ lastFlush.built > 0 /\ lastFlush.pending # 0
  /\ wipRoot # NULL /\ nextUnitOfWork = "root"
  /\ hookMaps[currentRoot.child.hooks]["k"].queue # <<>>

====
